---- MODULE Spec2Model ----
(***************************************************************************)
(* Verification model of the Windows network troubleshooting suite:        *)
(*   src/monitor/network_monitor.py  (monitor, optimizer, timer thread)    *)
(*   src/monitor/smart_optimize.py   (performance test, before/after)      *)
(*   src/smart_diagnose.py           (diagnose-then-fix workflow)          *)
(*                                                                         *)
(* Measurements are milliseconds / counts / percent, modelled as integers; *)
(* -1 is the failure sentinel the probes return.  Quotients of the source  *)
(* (float division) are compared in exact arithmetic by cross              *)
(* multiplication.  Status labels and colours are ASCII names of the       *)
(* source's strings:                                                       *)
(*   "normal" = 正常, "degraded" = 较慢, "slow" = 缓慢, "error" = 异常,    *)
(*   "insufficient" = 数据不足, "stable" = 稳定, "degrading" = 性能下降,   *)
(*   "no_change" = 无明显变化, "improve" = 提升, "regress" = 下降,         *)
(*   "unknown" = [未知], "high" = [偏高].                                  *)
(***************************************************************************)
EXTENDS Integers, Sequences, FiniteSets, TLC

VARIABLES
    call,           \* last application of a pure routine: [fn, arg, out]
    mpc,            \* network_monitor.main: "menu" | "monitor" | "crashed" | "exited"
    stats_history,  \* NetworkMonitor.stats_history (deque, maxlen 100)
    analysis,       \* run_realtime_monitor's local: what analyze_performance returned
    clock,          \* datetime.now(): logical time of the next appended sample
    netHttp,        \* environment: what measure_http_response_time returns now
    netChanges,     \* environment: how often the network condition has changed
    spc,            \* network_monitor.main with the timer: "menu" | "optimize" | "exited"
    fgTodo,         \* foreground: remediations of the running quick_optimize still to do
    is_running,     \* ScheduledOptimizer.is_running
    interval,       \* ScheduledOptimizer.interval (seconds)
    threads,        \* every Thread(target=self._run) started so far, in start order
    optimization_log, \* NetworkOptimizer.optimization_log
    toolRet,        \* environment: the return code each remediation command gives
    toolOut,        \* environment: what netstat -an | find /c "TCP" prints
    now,            \* time.time() in minutes
    dpc,            \* smart_diagnose.main: "menu" | "prompt" | "crashed" | "exited"
    sys,            \* the machine's settings the checks read and the fixes write
    detected_problems, \* smart_diagnose's list of the candidates detected
    idx,            \* position in detected_problems of the candidate prompted for
    outcome,        \* how the last smart_diagnose run ended ("running" while it prompts)
    cause,          \* the candidate reported as the cause ("none" if none)
    diagnosis_log,  \* the records appended to diagnosis_log.txt
    calls,          \* the probes, checks and fixes the current run has called, in order
    runs,           \* smart_diagnose runs started
    last_http,      \* what the HTTP probe of the last run_network_test gave
    confirm,        \* the last answer to a prompt of smart_diagnose ("none": no prompt yet)
    npc,            \* network_doctor.main: "menu" | "exited"
    machine,        \* what the ten checks of network_doctor read
    results,        \* NetworkDiagnostics.results (main's results is the same list)
    issues_found,   \* NetworkDiagnostics.issues_found
    passes,         \* calls of run_all_diagnostics so far
    offered         \* whether the last option 4 offered the repair ("none": not chosen yet)

pureVars == <<call>>
monVars == <<mpc, stats_history, analysis, clock, netHttp, netChanges>>
schedVars ==
    <<spc, fgTodo, is_running, interval, threads, optimization_log, toolRet, toolOut, now>>
diagVars ==
    <<dpc, sys, detected_problems, idx, outcome, cause, diagnosis_log, calls, runs, last_http, confirm>>
docVars == <<npc, machine, results, issues_found, passes, offered>>

(***************************************************************************)
(* Bounds                                                                  *)
(***************************************************************************)
MaxCollects == 102     \* samples appended in one session
MaxNetChanges == 1     \* changes of the network condition in one session
MaxVaryCollects == 22  \* the condition changes while fewer samples than this were taken
MaxPerfMs == 120       \* largest before/after value handed to analyze
MaxThreads == 2        \* timer threads started in one session
MaxLogLen == 6         \* records in optimization_log
MaxTime == 2           \* minutes the session lasts
MaxDiagRuns == 2       \* smart_diagnose runs in one session
MaxFullLogLen == 12    \* records in optimization_log when full_optimize is chosen
MaxSessionSamples == 2 \* status checks in a session that also runs the optimizer
MaxDoctorPasses == 2   \* diagnostic passes in one session of network_doctor

Abs(x) == IF x < 0 THEN -x ELSE x

(***************************************************************************)
(* network_monitor.py: NetworkMonitor.collect_stats / print_stats          *)
(***************************************************************************)
\* optimization_threshold['http_response_time']
HttpSlowThreshold == 3000
\* the literal of the elif branch of collect_stats
HttpDegradedThreshold == 1500

\* variant: the cutoffs compared with >=
StatusOfInclusive(http_response_time) ==
    IF http_response_time >= HttpSlowThreshold THEN "slow"
    ELSE IF http_response_time >= HttpDegradedThreshold THEN "degraded"
    ELSE IF http_response_time < 0 THEN "error"
    ELSE "normal"

StatusOf(http_response_time) ==
    IF http_response_time > HttpSlowThreshold THEN "slow"
    ELSE IF http_response_time > HttpDegradedThreshold THEN "degraded"
    ELSE IF http_response_time < 0 THEN "error"
    ELSE "normal"

\* variant: the first sample of a session is always normal
collect_stats_first_normal(m, time) ==
    [timestamp |-> time,
     dns_resolve_time |-> m.dns_resolve_time,
     ping_time |-> m.ping_time,
     http_response_time |-> m.http_response_time,
     tcp_connections |-> m.tcp_connections,
     dns_cache_entries |-> m.dns_cache_entries,
     arp_cache_entries |-> m.arp_cache_entries,
     memory_usage_percent |-> m.memory_usage_percent,
     status |-> IF time = 0 THEN "normal" ELSE StatusOf(m.http_response_time)]

\* the seven measured values -> the NetworkStats record with its status
collect_stats(m, time) ==
    [timestamp |-> time,
     dns_resolve_time |-> m.dns_resolve_time,
     ping_time |-> m.ping_time,
     http_response_time |-> m.http_response_time,
     tcp_connections |-> m.tcp_connections,
     dns_cache_entries |-> m.dns_cache_entries,
     arp_cache_entries |-> m.arp_cache_entries,
     memory_usage_percent |-> m.memory_usage_percent,
     status |-> StatusOf(m.http_response_time)]

\* GREEN if 0 < v < good else YELLOW if v < warn else RED
LatencyColor(v, good, warn) ==
    IF 0 < v /\ v < good THEN "GREEN"
    ELSE IF v < warn THEN "YELLOW"
    ELSE "RED"

\* GREEN if v < good else YELLOW if v < warn else RED
ResourceColor(v, good, warn) ==
    IF v < good THEN "GREEN"
    ELSE IF v < warn THEN "YELLOW"
    ELSE "RED"

print_stats(stats) ==
    [dns_color |-> LatencyColor(stats.dns_resolve_time, 100, 500),
     ping_color |-> LatencyColor(stats.ping_time, 50, 100),
     http_color |-> LatencyColor(stats.http_response_time, 500, 1500),
     tcp_color |-> ResourceColor(stats.tcp_connections, 300, 500),
     dns_cache_color |-> ResourceColor(stats.dns_cache_entries, 500, 1000),
     arp_color |-> ResourceColor(stats.arp_cache_entries, 100, 200),
     mem_color |-> ResourceColor(stats.memory_usage_percent, 70, 85)]

(***************************************************************************)
(* smart_optimize.py: print_performance.get_color, show_cache_status,      *)
(* single_optimize_test.analyze                                            *)
(***************************************************************************)
get_color(value, good, warn) ==
    IF value < 0 THEN "RED"
    ELSE IF value < good THEN "GREEN"
    ELSE IF value < warn THEN "YELLOW"
    ELSE "RED"

print_performance(result) ==
    [dns_color |-> get_color(result.dns_time, 50, 200),
     http_color |-> get_color(result.http_time, 500, 1500),
     ping_color |-> get_color(result.ping_time, 30, 100)]

\* the probes of smart_optimize.py on a tool result [ret, n]: n is the count
\* parsed from the tool's output
get_dns_cache_count(r) == IF r.ret = 0 THEN r.n ELSE -1
get_arp_cache_count(r) == IF r.ret = 0 THEN r.n ELSE -1
get_netbios_cache_count(r) == IF r.ret = 0 THEN r.n ELSE 0
get_tcp_connection_count(r) == IF r.ret = 0 /\ r.parses THEN r.n ELSE -1

CacheLabel(count, threshold) ==
    IF count < 0 THEN "unknown"
    ELSE IF count > threshold THEN "high"
    ELSE "normal"

show_cache_status(t) ==
    LET caches == <<
            [name |-> "DNS", count |-> get_dns_cache_count(t.dns), threshold |-> 500],
            [name |-> "ARP", count |-> get_arp_cache_count(t.arp), threshold |-> 100],
            [name |-> "NetBIOS", count |-> get_netbios_cache_count(t.netbios), threshold |-> 50],
            [name |-> "TCP", count |-> get_tcp_connection_count(t.tcp), threshold |-> 300] >>
    IN [i \in 1..4 |->
            [name |-> caches[i].name, count |-> caches[i].count,
             status |-> CacheLabel(caches[i].count, caches[i].threshold)]]

\* percent = diff / before_val * 100 is kept as the fraction pct_num / pct_den;
\* abs(percent) < 5 is compared exactly
NoiseThreshold == 5

\* variant: abs(percent) <= 5 counts as noise
analyzeInclusive(before_val, after_val) ==
    IF before_val < 0 \/ after_val < 0
    THEN [verdict |-> "none", pct_num |-> 0, pct_den |-> 1]
    ELSE LET diff == before_val - after_val
             num == IF before_val > 0 THEN diff * 100 ELSE 0
             den == IF before_val > 0 THEN before_val ELSE 1
         IN [verdict |-> IF Abs(num) <= NoiseThreshold * den THEN "no_change"
                         ELSE IF diff > 0 THEN "improve"
                         ELSE "regress",
             pct_num |-> num, pct_den |-> den]

analyze(before_val, after_val) ==
    IF before_val < 0 \/ after_val < 0
    THEN [verdict |-> "none", pct_num |-> 0, pct_den |-> 1]
    ELSE LET diff == before_val - after_val
             num == IF before_val > 0 THEN diff * 100 ELSE 0
             den == IF before_val > 0 THEN before_val ELSE 1
         IN [verdict |-> IF Abs(num) < NoiseThreshold * den THEN "no_change"
                         ELSE IF diff > 0 THEN "improve"
                         ELSE "regress",
             pct_num |-> num, pct_den |-> den]

(***************************************************************************)
(* Inputs of the pure routines                                             *)
(***************************************************************************)
HttpProbeVals == {-1, 0, 1, 499, 500, 1499, 1500, 1501, 2999, 3000, 3001}
LatencyProbeVals == {-1, 20, 600}
CountProbeVals == {-1, 50, 1200}
MemProbeVals == {-1, 40, 90}

Measurements ==
    [dns_resolve_time : LatencyProbeVals, ping_time : LatencyProbeVals,
     http_response_time : HttpProbeVals, tcp_connections : CountProbeVals,
     dns_cache_entries : CountProbeVals, arp_cache_entries : CountProbeVals,
     memory_usage_percent : MemProbeVals]

PerformanceResults ==
    [dns_time : {-1, 10, 50, 200}, http_time : {-1, 300, 500, 1500},
     ping_time : {-1, 10, 30, 100}]

ToolResults == [ret : {0, 1, -1}, n : {0, 40, 600}, parses : BOOLEAN]
NoTool == [ret |-> 0, n |-> 0, parses |-> TRUE]

NoCall == [fn |-> "none", arg |-> <<>>, out |-> <<>>]

(***************************************************************************)
(* The routines applied to their inputs                                    *)
(***************************************************************************)
CollectStatsCall ==
    /\ call = NoCall
    /\ \E m \in Measurements :
         call' = [fn |-> "collect_stats", arg |-> m, out |-> collect_stats(m, 0)]
    /\ UNCHANGED <<monVars, schedVars, diagVars, docVars>>

PrintStatsCall ==
    /\ call = NoCall
    /\ \E m \in Measurements :
         call' = [fn |-> "print_stats", arg |-> collect_stats(m, 0),
                  out |-> print_stats(collect_stats(m, 0))]
    /\ UNCHANGED <<monVars, schedVars, diagVars, docVars>>

PrintPerformanceCall ==
    /\ call = NoCall
    /\ \E r \in PerformanceResults :
         call' = [fn |-> "print_performance", arg |-> r, out |-> print_performance(r)]
    /\ UNCHANGED <<monVars, schedVars, diagVars, docVars>>

ShowCacheStatusCall ==
    /\ call = NoCall
    /\ \E which \in {"dns", "arp", "netbios", "tcp"}, r \in ToolResults :
         LET t == [k \in {"dns", "arp", "netbios", "tcp"} |->
                        IF k = which THEN r ELSE NoTool]
         IN call' = [fn |-> "show_cache_status", arg |-> t, out |-> show_cache_status(t)]
    /\ UNCHANGED <<monVars, schedVars, diagVars, docVars>>

AnalyzeCall ==
    /\ call = NoCall
    /\ \E b \in -1..MaxPerfMs, a \in -1..MaxPerfMs :
         call' = [fn |-> "analyze", arg |-> <<b, a>>, out |-> analyze(b, a)]
    /\ UNCHANGED <<monVars, schedVars, diagVars, docVars>>

\* the routine has returned; the next one may be applied
ReturnCall ==
    /\ call # NoCall
    /\ call' = NoCall
    /\ UNCHANGED <<monVars, schedVars, diagVars, docVars>>

(***************************************************************************)
(* network_monitor.py: the history buffer and the trend analysis           *)
(***************************************************************************)
\* deque(maxlen=100)
HistoryMaxLen == 100
\* list(self.stats_history)[-10:]
TrendWindow == 10

\* variant: a full deque drops its rightmost item
DequeAppendDropNewest(q, x) ==
    IF Len(q) = HistoryMaxLen THEN Append(SubSeq(q, 1, Len(q) - 1), x) ELSE Append(q, x)

\* deque.append on a deque with maxlen: a full deque drops its leftmost item
DequeAppend(q, x) ==
    IF Len(q) = HistoryMaxLen THEN Append(Tail(q), x) ELSE Append(q, x)

\* list(q)[-n:]
LastN(q, n) == IF Len(q) <= n THEN q ELSE SubSeq(q, Len(q) - n + 1, Len(q))

RECURSIVE SumValidHttp(_)
\* sum(s.http_response_time for s in w if s.http_response_time > 0)
SumValidHttp(w) ==
    IF w = <<>> THEN 0
    ELSE (IF Head(w).http_response_time > 0 THEN Head(w).http_response_time ELSE 0)
         + SumValidHttp(Tail(w))

\* avg_http > old_avg_http * 1.5, both averages being sum / len(window)
ExceedsOlder(recent, older) ==
    2 * SumValidHttp(recent) * Len(older) > 3 * SumValidHttp(older) * Len(recent)

\* variant: the older window is compared as soon as there is one sample in it
analyze_performance_early(history) ==
    IF Len(history) < 2 THEN "insufficient"
    ELSE LET recent == LastN(history, TrendWindow)
         IN IF Len(history) > TrendWindow
            THEN LET older == SubSeq(history,
                                     IF Len(history) > 2 * TrendWindow
                                     THEN Len(history) - 2 * TrendWindow + 1 ELSE 1,
                                     Len(history) - TrendWindow)
                 IN IF ExceedsOlder(recent, older)
                    THEN IF SumValidHttp(older) = 0 THEN "ZeroDivisionError"
                         ELSE "degrading"
                    ELSE "stable"
            ELSE "stable"

\* the trend returned, or the exception raised while the "http_increase"
\* string of the degrading verdict is formatted (division by old_avg_http)
analyze_performance(history) ==
    IF Len(history) < 2 THEN "insufficient"
    ELSE LET recent == LastN(history, TrendWindow)
         IN IF Len(history) >= 2 * TrendWindow
            THEN LET older == SubSeq(history, Len(history) - 2 * TrendWindow + 1,
                                     Len(history) - TrendWindow)
                 IN IF ExceedsOlder(recent, older)
                    THEN IF SumValidHttp(older) = 0 THEN "ZeroDivisionError"
                         ELSE "degrading"
                    ELSE "stable"
            ELSE "stable"

\* what the probes of one collect_stats pass measure in the current network
\* condition: the HTTP time varies, the other probes stay nominal
HttpSessionVals == {-1, 1000, 2000}

Measure ==
    [dns_resolve_time |-> 20, ping_time |-> 20, http_response_time |-> netHttp,
     tcp_connections |-> 50, dns_cache_entries |-> 50, arp_cache_entries |-> 50,
     memory_usage_percent |-> 40]

\* main, choice '1': collect, append to the history, print
CheckStatus ==
    /\ mpc = "menu"
    /\ clock < MaxCollects
    /\ stats_history' = DequeAppend(stats_history, collect_stats(Measure, clock))
    /\ clock' = clock + 1
    /\ UNCHANGED <<mpc, analysis, netHttp, netChanges, call, schedVars, diagVars, docVars>>

\* one pass of the loop of run_realtime_monitor: collect, append, print,
\* analyze; an exception other than KeyboardInterrupt leaves the loop and main
MonitorPass ==
    /\ clock < MaxCollects
    /\ LET h == DequeAppend(stats_history, collect_stats(Measure, clock))
       IN /\ stats_history' = h
          /\ analysis' = analyze_performance(h)
          /\ mpc' = IF analyze_performance(h) = "ZeroDivisionError"
                    THEN "crashed" ELSE "monitor"
    /\ clock' = clock + 1
    /\ UNCHANGED <<netHttp, netChanges, call, schedVars, diagVars, docVars>>

\* main, choice '4': run_realtime_monitor starts with a pass
StartMonitor ==
    /\ mpc = "menu"
    /\ MonitorPass

\* the 30 second sleep is over: next pass
MonitorRefresh ==
    /\ mpc = "monitor"
    /\ MonitorPass

\* Ctrl+C during the sleep: run_realtime_monitor returns to the menu and its
\* local analysis is gone
MonitorInterrupt ==
    /\ mpc = "monitor"
    /\ mpc' = "menu"
    /\ analysis' = "none"
    /\ UNCHANGED <<stats_history, clock, netHttp, netChanges, call, schedVars, diagVars, docVars>>

\* the network condition changes between two passes
NetChange ==
    /\ netChanges < MaxNetChanges
    /\ clock < MaxVaryCollects
    /\ mpc \in {"menu", "monitor"}
    /\ \E v \in HttpSessionVals \ {netHttp} : netHttp' = v
    /\ netChanges' = netChanges + 1
    /\ UNCHANGED <<mpc, stats_history, analysis, clock, call, schedVars, diagVars, docVars>>

(***************************************************************************)
(* network_monitor.py: NetworkOptimizer and ScheduledOptimizer             *)
(***************************************************************************)
\* run_command's return code: 0, or non-zero (the tool failed, timed out: -1)
RetCodes == {0, 1}

\* the commands of the remediations of quick_optimize; what a command returns
\* is a property of the machine (privileges, services) that holds for a session
Commands == {"ipconfig /flushdns", "netsh interface ip delete arpcache",
             "arp -d *", "nbtstat -R"}

\* the further commands of the remediations of full_optimize whose return
\* code is looked at (that of ipconfig /registerdns is not)
FullCommands == {"nbtstat -RR", "netsh int tcp set global autotuninglevel=normal",
                 "netsh int tcp set global rss=enabled", "netstat -an | find /c TCP"}
AllCommands == Commands \cup FullCommands

\* success_count of optimize_tcp_settings
TcpSuccessCount(ret) ==
    (IF ret["netsh int tcp set global autotuninglevel=normal"] = 0 THEN 1 ELSE 0)
    + (IF ret["netsh int tcp set global rss=enabled"] = 0 THEN 1 ELSE 0)

\* the OptimizationResult of one remediation, given the return code of every
\* command; clear_arp_cache looks at arp -d * only when netsh failed
Remediate(action, ret) ==
    IF action = "flush_dns_cache"
    THEN IF ret["ipconfig /flushdns"] = 0
         THEN [action |-> action, success |-> TRUE, message |-> "cleared"]
         ELSE [action |-> action, success |-> FALSE, message |-> "failed"]
    ELSE IF action = "clear_arp_cache"
    THEN IF ret["netsh interface ip delete arpcache"] = 0
         THEN [action |-> action, success |-> TRUE, message |-> "cleared"]
         ELSE IF ret["arp -d *"] = 0
              THEN [action |-> action, success |-> TRUE, message |-> "cleared (fallback)"]
              ELSE [action |-> action, success |-> FALSE, message |-> "failed"]
    ELSE IF action = "clear_netbios_cache"
    THEN IF ret["nbtstat -R"] = 0
         THEN [action |-> action, success |-> TRUE, message |-> "cleared"]
         ELSE [action |-> action, success |-> FALSE, message |-> "failed"]
    ELSE IF action = "reset_netbios_sessions"
    THEN IF ret["nbtstat -RR"] = 0
         THEN [action |-> action, success |-> TRUE, message |-> "registered"]
         ELSE [action |-> action, success |-> FALSE, message |-> "failed"]
    ELSE IF action = "optimize_tcp_settings"
    THEN [action |-> action, success |-> TcpSuccessCount(ret) > 0,
          message |-> IF TcpSuccessCount(ret) = 2 THEN "applied 2/2"
                      ELSE IF TcpSuccessCount(ret) = 1 THEN "applied 1/2"
                      ELSE "applied 0/2"]
    ELSE [action |-> action, success |-> TRUE, message |-> "tried"]

\* release_idle_connections: before_count = int(stdout.strip()) if ret == 0
\* else 0 raises ValueError when the output is not a number
Raises(action, ret, out) ==
    /\ action = "release_idle_connections"
    /\ ret["netstat -an | find /c TCP"] = 0
    /\ out = ""

CommandsRunBoth(action, ret) ==
    IF action = "flush_dns_cache" THEN <<"ipconfig /flushdns">>
    ELSE IF action = "clear_arp_cache"
    THEN <<"netsh interface ip delete arpcache", "arp -d *">>
    ELSE IF action = "clear_netbios_cache" THEN <<"nbtstat -R">>
    ELSE IF action = "reset_netbios_sessions" THEN <<"nbtstat -RR">>
    ELSE IF action = "optimize_tcp_settings"
    THEN <<"netsh int tcp set global autotuninglevel=normal",
           "netsh int tcp set global rss=enabled">>
    ELSE <<"netstat -an | find /c TCP", "ipconfig /registerdns">>

\* the commands one remediation passes to run_command, in order
CommandsRun(action, ret) ==
    IF action = "flush_dns_cache" THEN <<"ipconfig /flushdns">>
    ELSE IF action = "clear_arp_cache"
    THEN IF ret["netsh interface ip delete arpcache"] = 0
         THEN <<"netsh interface ip delete arpcache">>
         ELSE <<"netsh interface ip delete arpcache", "arp -d *">>
    ELSE IF action = "clear_netbios_cache" THEN <<"nbtstat -R">>
    ELSE IF action = "reset_netbios_sessions" THEN <<"nbtstat -RR">>
    ELSE IF action = "optimize_tcp_settings"
    THEN <<"netsh int tcp set global autotuninglevel=normal",
           "netsh int tcp set global rss=enabled">>
    ELSE <<"netstat -an | find /c TCP", "ipconfig /registerdns">>

\* the remediations quick_optimize calls, in order
QuickActions == <<"flush_dns_cache", "clear_arp_cache", "clear_netbios_cache">>

\* the remediations full_optimize calls, in order
FullActions ==
    <<"flush_dns_cache", "clear_arp_cache", "clear_netbios_cache",
      "reset_netbios_sessions", "optimize_tcp_settings", "release_idle_connections">>

\* interval = int(interval) if interval.isdigit() else 30
IntervalInputs == {"", "1", "x"}
ParseInterval(text) ==
    IF text = "0" THEN 0 ELSE IF text = "1" THEN 1 ELSE IF text = "2" THEN 2 ELSE 30

\* a thread whose _run has returned
DeadThread ==
    [pc |-> "dead", wake |-> 0, last_optimize_time |-> 0, current_time |-> 0,
     todo |-> <<>>, stopped |-> FALSE, stopAt |-> 0]

Alive(t) == threads[t].pc # "dead"
Runnable(t) ==
    \/ threads[t].pc \in {"test", "optimize"}
    \/ threads[t].pc = "sleep" /\ threads[t].wake <= now

\* a thread that is about to test the flag does so at once: it has just been
\* started, or has just come back from the sleep or from quick_optimize, while
\* the foreground waits for the user or for a command
NoPollPending == \A t \in 1..Len(threads) : threads[t].pc # "test"

\* records the remediations already begun will still append
Pending ==
    LET RECURSIVE Sum(_)
        Sum(i) == IF i = 0 THEN 0 ELSE Len(threads[i].todo) + Sum(i - 1)
    IN Len(fgTodo) + Sum(Len(threads))

\* ScheduledOptimizer.start: a new thread runs _run, whose first statement
\* reads the time
start(interval_minutes) ==
    /\ interval' = interval_minutes * 60
    /\ is_running' = TRUE
    /\ threads' = Append(threads,
            [pc |-> "test", wake |-> 0, last_optimize_time |-> now,
             current_time |-> now, todo |-> <<>>, stopped |-> FALSE, stopAt |-> 0])

\* ScheduledOptimizer.stop: clears the flag; join(timeout=2) gives up on a
\* sleeping thread.  stopped / stopAt note for every live thread that stop()
\* was called and when.
stop ==
    /\ is_running' = FALSE
    /\ threads' = [t \in 1..Len(threads) |->
            IF Alive(t) /\ ~threads[t].stopped
            THEN [threads[t] EXCEPT !.stopped = TRUE, !.stopAt = now]
            ELSE threads[t]]

\* main, choice '5'
ToggleScheduled ==
    /\ spc = "menu"
    /\ NoPollPending
    /\ IF is_running
       THEN stop /\ UNCHANGED interval
       ELSE /\ Len(threads) < MaxThreads
            /\ \E text \in IntervalInputs : start(ParseInterval(text))
    /\ UNCHANGED <<spc, fgTodo, optimization_log, toolRet, toolOut, now, call, monVars, diagVars, docVars>>

\* main, choice '0': the daemon threads end with the process
Exit ==
    /\ spc = "menu"
    /\ NoPollPending
    /\ spc' = "exited"
    /\ is_running' = FALSE
    /\ threads' = [t \in 1..Len(threads) |-> DeadThread]
    /\ UNCHANGED <<fgTodo, interval, optimization_log, toolRet, toolOut, now, call, monVars, diagVars, docVars>>

\* main, choice '2': quick_optimize begins in the foreground
ChooseQuick ==
    /\ spc = "menu"
    /\ NoPollPending
    /\ Len(optimization_log) + Pending + Len(QuickActions) <= MaxLogLen
    /\ spc' = "optimize"
    /\ fgTodo' = QuickActions
    /\ UNCHANGED <<is_running, interval, threads, optimization_log, toolRet, toolOut, now, call, monVars, diagVars, docVars>>

\* main, choice '3': full_optimize begins in the foreground
ChooseFull ==
    /\ spc = "menu"
    /\ NoPollPending
    /\ Len(optimization_log) + Pending + Len(FullActions) <= MaxFullLogLen
    /\ spc' = "optimize"
    /\ fgTodo' = FullActions
    /\ UNCHANGED <<is_running, interval, threads, optimization_log, toolRet, toolOut, now, call, monVars, diagVars, docVars>>

\* the foreground runs the next remediation of quick_optimize or
\* full_optimize and appends its result; after the last one main is back at
\* the menu.  An exception raised by the remediation leaves full_optimize and
\* main's loop.
FgRemediate ==
    /\ spc = "optimize"
    /\ NoPollPending
    /\ IF Raises(Head(fgTodo), toolRet, toolOut)
       THEN /\ spc' = "crashed"
            /\ fgTodo' = <<>>
            /\ UNCHANGED optimization_log
       ELSE /\ optimization_log' = Append(optimization_log, Remediate(Head(fgTodo), toolRet))
            /\ fgTodo' = Tail(fgTodo)
            /\ spc' = IF Tail(fgTodo) = <<>> THEN "menu" ELSE "optimize"
    /\ UNCHANGED <<is_running, interval, threads, toolRet, toolOut, now, call, monVars, diagVars, docVars>>

\* _run: while self.is_running: time.sleep(60)
TimerTest(t) ==
    /\ threads[t].pc = "test"
    /\ threads' = [threads EXCEPT ![t] =
            IF is_running THEN [@ EXCEPT !.pc = "sleep", !.wake = now + 1]
            ELSE DeadThread]
    /\ UNCHANGED <<spc, fgTodo, is_running, interval, optimization_log, toolRet, toolOut, now, call, monVars, diagVars, docVars>>

\* _run after the sleep: elapsed >= self.interval starts quick_optimize
\* (auto_optimize_enabled is never cleared)
TimerWake(t) ==
    /\ threads[t].pc = "sleep"
    /\ threads[t].wake <= now
    /\ IF (now - threads[t].last_optimize_time) * 60 >= interval
       THEN /\ Len(optimization_log) + Pending + Len(QuickActions) <= MaxLogLen
            /\ threads' = [threads EXCEPT ![t] =
                    [@ EXCEPT !.pc = "optimize", !.current_time = now,
                              !.todo = QuickActions]]
       ELSE threads' = [threads EXCEPT ![t] = [@ EXCEPT !.pc = "test", !.current_time = now]]
    /\ UNCHANGED <<spc, fgTodo, is_running, interval, optimization_log, toolRet, toolOut, now, call, monVars, diagVars, docVars>>

\* the timer thread runs the next remediation of quick_optimize; after the
\* last one last_optimize_time = current_time
TimerRemediate(t) ==
    /\ threads[t].pc = "optimize"
    /\ optimization_log' =
            Append(optimization_log, Remediate(Head(threads[t].todo), toolRet))
    /\ threads' = [threads EXCEPT ![t] =
            IF Tail(threads[t].todo) = <<>>
            THEN [threads[t] EXCEPT !.pc = "test", !.todo = <<>>,
                                    !.last_optimize_time = threads[t].current_time]
            ELSE [threads[t] EXCEPT !.todo = Tail(threads[t].todo)]]
    /\ UNCHANGED <<spc, fgTodo, is_running, interval, toolRet, toolOut, now, call, monVars, diagVars, docVars>>

TimerStep ==
    \E t \in 1..Len(threads) : TimerTest(t) \/ TimerWake(t) \/ TimerRemediate(t)

\* a minute passes; a thread that can run does so before the minute is over
Tick ==
    /\ spc # "exited"
    /\ now < MaxTime
    /\ \A t \in 1..Len(threads) : ~Runnable(t)
    /\ now' = now + 1
    /\ UNCHANGED <<spc, fgTodo, is_running, interval, threads, optimization_log, toolRet, toolOut, call, monVars, diagVars, docVars>>

(***************************************************************************)
(* smart_diagnose.py: the checks, the fixes and the smart_diagnose workflow *)
(***************************************************************************)
\* the markers check_winhttp_proxy looks for in `netsh winhttp show proxy`:
\* "zh_direct" = 直接访问, "en_direct" = Direct access,
\* "zh_proxy" = 代理服务器, "en_proxy" = Proxy Server
WinhttpMarkers == {"zh_direct", "en_direct", "zh_proxy", "en_proxy"}

\* outputs of the tool: it failed (no output), direct access and a proxy in
\* the English wording, direct access and a proxy in the Chinese wording
\* (whose direct-access text 直接访问(没有代理服务器) holds both markers)
WinhttpOutputs ==
    {{}, {"en_direct"}, {"en_proxy"}, {"zh_direct", "zh_proxy"}, {"zh_proxy"}}
IndicatesDirect(out) == "zh_direct" \in out \/ "en_direct" \in out

\* ProxyEnable is the set of the values the registry holds under that name:
\* empty when the value is missing
Systems ==
    [ProxyEnable : {{}, {0}, {1}},
     ProxyServer : {"missing", "127.0.0.1:8080"},
     AutoConfigURL : {"missing", "http://wpad/proxy.pac"},
     winhttpOut : WinhttpOutputs,
     winsockSuspicious : BOOLEAN,
     dnsCacheCount : {0, 500, 501},
     regAccess : {"rw", "r", "none"}]

CleanSystem ==
    [ProxyEnable |-> {0}, ProxyServer |-> "missing", AutoConfigURL |-> "missing",
     winhttpOut |-> {"en_direct"}, winsockSuspicious |-> FALSE, dnsCacheCount |-> 0,
     regAccess |-> "rw"]

\* run_network_test: ping, DNS and HTTP probes; test_dns_resolution catches
\* socket.gaierror only, any other exception leaves it ("raises")
TestResults ==
    [ping : {[ok |-> TRUE, time |-> 20], [ok |-> TRUE, time |-> 0], [ok |-> FALSE, time |-> -1]},
     dns : {[ok |-> TRUE, time |-> 15], [ok |-> FALSE, time |-> -1]},
     http : {[ok |-> TRUE, time |-> 120], [ok |-> FALSE, time |-> -1]},
     raises : BOOLEAN]

\* proxy_enable, proxy_server as check_ie_proxy reads them: a missing
\* ProxyEnable raises FileNotFoundError before ProxyServer is read
ReadProxyEnable(st) == IF st.ProxyEnable = {} THEN 0 ELSE CHOOSE v \in st.ProxyEnable : TRUE
ReadProxyServer(st) ==
    IF st.ProxyEnable = {} \/ st.ProxyServer = "missing" THEN "" ELSE st.ProxyServer

check_ie_proxy(st) ==
    IF st.regAccess = "none"
    THEN [name |-> "ie_proxy", detected |-> FALSE, fix_function |-> "None"]
    ELSE [name |-> "ie_proxy",
          detected |-> (ReadProxyEnable(st) = 1 /\ ReadProxyServer(st) # ""),
          fix_function |-> "fix_ie_proxy"]

check_pac_script(st) ==
    IF st.regAccess = "none"
    THEN [name |-> "pac_script", detected |-> FALSE, fix_function |-> "None"]
    ELSE [name |-> "pac_script", detected |-> (st.AutoConfigURL # "missing"),
          fix_function |-> "fix_pac_script"]

check_winhttp_proxy(st) ==
    [name |-> "winhttp_proxy",
     detected |-> ("zh_proxy" \in st.winhttpOut
                   \/ ("en_proxy" \in st.winhttpOut /\ "en_direct" \notin st.winhttpOut)),
     fix_function |-> "fix_winhttp_proxy"]

check_winsock(st) ==
    [name |-> "winsock", detected |-> st.winsockSuspicious, fix_function |-> "fix_winsock"]

check_dns_cache(st) ==
    [name |-> "dns_cache", detected |-> (st.dnsCacheCount > 500),
     fix_function |-> "fix_dns_cache"]

\* problems = [check_ie_proxy(), ..., check_dns_cache()]
Problems(st) ==
    <<check_ie_proxy(st), check_pac_script(st), check_winhttp_proxy(st),
      check_winsock(st), check_dns_cache(st)>>

CheckCallsProxyOnly == <<"check_ie_proxy", "check_pac_script", "check_winhttp_proxy">>

CheckCalls ==
    <<"check_ie_proxy", "check_pac_script", "check_winhttp_proxy",
      "check_winsock", "check_dns_cache">>

IsDetected(problem) == problem.detected

\* the fixes: [success, st] for the settings st; ret is the return code of
\* the fix's command, direct the output the reset WinHTTP shows afterwards
fix_ie_proxy_unwritten(st) == [success |-> TRUE, st |-> st]

fix_ie_proxy(st) ==
    IF st.regAccess = "rw"
    THEN [success |-> TRUE, st |-> [st EXCEPT !.ProxyEnable = {0}]]
    ELSE [success |-> FALSE, st |-> st]

fix_pac_script(st) ==
    IF st.regAccess = "rw"
    THEN [success |-> TRUE, st |-> [st EXCEPT !.AutoConfigURL = "missing"]]
    ELSE [success |-> FALSE, st |-> st]

fix_winhttp_proxy(st, ret, direct) ==
    IF ret = 0 THEN [success |-> TRUE, st |-> [st EXCEPT !.winhttpOut = direct]]
    ELSE [success |-> FALSE, st |-> st]

fix_winsock(st, ret) ==
    IF ret = 0 THEN [success |-> TRUE, st |-> [st EXCEPT !.winsockSuspicious = FALSE]]
    ELSE [success |-> FALSE, st |-> st]

fix_dns_cache(st, ret) ==
    IF ret = 0 THEN [success |-> TRUE, st |-> [st EXCEPT !.dnsCacheCount = 0]]
    ELSE [success |-> FALSE, st |-> st]

\* problem.fix_function()
ApplyFix(fix_function, st, ret, direct) ==
    IF fix_function = "fix_ie_proxy" THEN fix_ie_proxy(st)
    ELSE IF fix_function = "fix_pac_script" THEN fix_pac_script(st)
    ELSE IF fix_function = "fix_winhttp_proxy" THEN fix_winhttp_proxy(st, ret, direct)
    ELSE IF fix_function = "fix_winsock" THEN fix_winsock(st, ret)
    ELSE fix_dns_cache(st, ret)

\* initial_test['http']['ok'], and test_result['http']['ok'] after a fix
HttpOutcome(test) ==
    IF test.raises THEN "raised" ELSE IF test.http.ok THEN "ok" ELSE "failed"

BaselineNeverPasses(test) == FALSE

\* if http_ok: return
BaselinePasses(test) == test.http.ok

\* smart_diagnose from its baseline test on settings st up to its first
\* prompt: how it goes on, what it has called, the candidates it detected
Baseline(test, st) ==
    IF test.raises
    THEN [verdict |-> "exception", calls |-> <<"run_network_test">>, detected |-> <<>>]
    ELSE IF BaselinePasses(test)
    THEN [verdict |-> "network_ok", calls |-> <<"run_network_test">>, detected |-> <<>>]
    ELSE LET detected == SelectSeq(Problems(st), IsDetected)
         IN [verdict |-> IF detected = <<>> THEN "no_problem" ELSE "running",
             calls |-> <<"run_network_test">> \o CheckCalls,
             detected |-> detected]

RetestNeverPasses(test) == FALSE

\* if test_result['http']['ok']: report the cause, save and return
RetestPasses(test) == test.http.ok

\* diagnosis_log.txt after save_diagnosis_result, which ignores a failure
\* to write the file
save_diagnosis_result(problem, written) ==
    IF written THEN Append(diagnosis_log, problem.name) ELSE diagnosis_log

\* the run is over: back at the menu of main
DiagEnd(result, reported) ==
    /\ dpc' = "menu"
    /\ outcome' = result
    /\ cause' = reported
    /\ detected_problems' = <<>>
    /\ idx' = 0

\* an exception leaves smart_diagnose and main
DiagCrash ==
    /\ dpc' = "crashed"
    /\ outcome' = "exception"
    /\ cause' = "none"
    /\ detected_problems' = <<>>
    /\ idx' = 0

DiagContinueEarly == DiagEnd("unresolved", "none")

\* the loop goes on to the next detected candidate, or ends unresolved
DiagContinue ==
    IF idx = Len(detected_problems)
    THEN DiagEnd("unresolved", "none")
    ELSE /\ idx' = idx + 1
         /\ UNCHANGED <<dpc, outcome, cause, detected_problems>>

\* main, choice '1': smart_diagnose up to its first prompt
DiagStart ==
    /\ dpc = "menu"
    /\ runs < MaxDiagRuns
    /\ runs' = runs + 1
    /\ confirm' = "none"
    /\ \E test \in TestResults :
         LET first == Baseline(test, sys)
         IN /\ last_http' = HttpOutcome(test)
            /\ calls' = first.calls
            /\ IF first.verdict = "exception" THEN DiagCrash
               ELSE IF first.verdict = "running"
               THEN /\ dpc' = "prompt"
                    /\ outcome' = "running"
                    /\ cause' = "none"
                    /\ detected_problems' = first.detected
                    /\ idx' = 1
               ELSE DiagEnd(first.verdict, "none")
    /\ UNCHANGED <<sys, diagnosis_log, call, monVars, schedVars, docVars>>

\* input(...).strip().lower() at the prompt of a candidate
Answers == {"y", "n", "q", ""}

\* variant: everything but n confirms
ConfirmsUnlessNo(answer) == answer # "n"

\* the fix is applied unless `confirm != 'y'`
Confirms(answer) == answer = "y"

\* the user answers the prompt for detected_problems[idx]: the rest of that
\* pass of the loop, up to the next prompt or the end of the run
DiagAnswer ==
    /\ dpc = "prompt"
    /\ LET problem == detected_problems[idx]
       IN \E answer \in Answers :
            /\ confirm' = answer
            /\ IF answer = "q"
               THEN /\ DiagEnd("aborted", "none")
                    /\ UNCHANGED <<sys, diagnosis_log, calls, last_http>>
               ELSE IF ~Confirms(answer)
               THEN /\ DiagContinue
                    /\ UNCHANGED <<sys, diagnosis_log, calls, last_http>>
               ELSE \E ret \in RetCodes,
                       direct \in {o \in WinhttpOutputs : IndicatesDirect(o)} :
                      LET fixed == ApplyFix(problem.fix_function, sys, ret, direct)
                      IN IF ~fixed.success
                         THEN /\ DiagContinue
                              /\ calls' = Append(calls, problem.fix_function)
                              /\ UNCHANGED <<sys, diagnosis_log, last_http>>
                         ELSE /\ sys' = fixed.st
                              /\ calls' = calls \o <<problem.fix_function, "run_network_test">>
                              /\ \E test \in TestResults :
                                   /\ last_http' = HttpOutcome(test)
                                   /\ IF test.raises
                                      THEN DiagCrash /\ UNCHANGED diagnosis_log
                                      ELSE IF RetestPasses(test)
                                      THEN /\ DiagEnd("resolved", problem.name)
                                           /\ \E written \in BOOLEAN :
                                                diagnosis_log' =
                                                    save_diagnosis_result(problem, written)
                                      ELSE DiagContinue /\ UNCHANGED diagnosis_log
    /\ UNCHANGED <<runs, call, monVars, schedVars, docVars>>

\* main, choice '0'
DiagExit ==
    /\ dpc = "menu"
    /\ dpc' = "exited"
    /\ UNCHANGED <<sys, detected_problems, idx, outcome, cause, diagnosis_log, calls, runs,
                   last_http, confirm, call, monVars, schedVars, docVars>>

\* smart_diagnose's first steps applied to a baseline test and the settings
BaselineCall ==
    /\ call = NoCall
    /\ \E test \in TestResults, st \in Systems :
         call' = [fn |-> "smart_diagnose", arg |-> [test |-> test, st |-> st],
                  out |-> Baseline(test, st)]
    /\ UNCHANGED <<monVars, schedVars, diagVars, docVars>>

\* check_ie_proxy, fix_ie_proxy, check_ie_proxy again on settings st
FixIeProxyCall ==
    /\ call = NoCall
    /\ \E st \in Systems :
         LET fixed == fix_ie_proxy(st)
         IN call' = [fn |-> "fix_ie_proxy", arg |-> st,
                     out |-> [before |-> check_ie_proxy(st), success |-> fixed.success,
                              st |-> fixed.st, after |-> check_ie_proxy(fixed.st)]]
    /\ UNCHANGED <<monVars, schedVars, diagVars, docVars>>

\* one remediation of quick_optimize applied to the return codes of the
\* commands
RemediateCall ==
    /\ call = NoCall
    /\ \E i \in 1..Len(QuickActions), ret \in [Commands -> RetCodes] :
         call' = [fn |-> QuickActions[i], arg |-> ret,
                  out |-> [result |-> Remediate(QuickActions[i], ret),
                           ran |-> CommandsRun(QuickActions[i], ret)]]
    /\ UNCHANGED <<monVars, schedVars, diagVars, docVars>>

(***************************************************************************)
(* Sequences of remediation steps: network_doctor.py NetworkRepair and      *)
(* network_monitor.py NetworkOptimizer, as functions of the steps' outcomes *)
(***************************************************************************)
\* the steps of NetworkRepair.full_repair and quick_repair, in order
FullRepairSteps ==
    <<"disable_ie_proxy", "reset_winhttp_proxy", "flush_dns", "reset_dns",
      "reset_winsock", "reset_tcp_ip", "release_renew_ip">>
QuickRepairSteps == <<"disable_ie_proxy", "reset_winhttp_proxy", "flush_dns">>

RECURSIVE RunStepsUntilFailure(_, _)
RunStepsUntilFailure(steps, ok) ==
    IF steps = <<>> THEN <<>>
    ELSE IF ok[Head(steps)]
    THEN <<[step |-> Head(steps), success |-> TRUE]>> \o RunStepsUntilFailure(Tail(steps), ok)
    ELSE <<[step |-> Head(steps), success |-> FALSE]>>

\* if self.step(): success_count += 1, for each step in turn; ok[step] is
\* what the step returns
RECURSIVE RunSteps(_, _)
RunSteps(steps, ok) ==
    IF steps = <<>> THEN <<>>
    ELSE <<[step |-> Head(steps), success |-> ok[Head(steps)]]>> \o RunSteps(Tail(steps), ok)

\* success_count
SuccessCount(step_results) == Cardinality({i \in 1..Len(step_results) : step_results[i].success})

\* full_repair: return success_count >= total // 2, total = 7
full_repair(ok) ==
    LET step_results == RunSteps(FullRepairSteps, ok)
    IN [attempted |-> [i \in 1..Len(step_results) |-> step_results[i].step],
        success_count |-> SuccessCount(step_results),
        returns |-> SuccessCount(step_results) >= 7 \div 2]

\* quick_repair: return success_count >= 2
quick_repair(ok) ==
    LET step_results == RunSteps(QuickRepairSteps, ok)
    IN [attempted |-> [i \in 1..Len(step_results) |-> step_results[i].step],
        success_count |-> SuccessCount(step_results),
        returns |-> SuccessCount(step_results) >= 2]

\* quick_optimize / full_optimize on a machine with return codes ret and
\* netstat output out: the remediations called, the records appended, and
\* whether an exception left the sequence
RECURSIVE Optimize(_, _, _)
Optimize(actions, ret, out) ==
    IF actions = <<>> THEN [attempted |-> <<>>, log |-> <<>>, raised |-> FALSE]
    ELSE IF Raises(Head(actions), ret, out)
    THEN [attempted |-> <<Head(actions)>>, log |-> <<>>, raised |-> TRUE]
    ELSE LET rest == Optimize(Tail(actions), ret, out)
         IN [attempted |-> <<Head(actions)>> \o rest.attempted,
             log |-> <<Remediate(Head(actions), ret)>> \o rest.log,
             raised |-> rest.raised]

RepairCall ==
    /\ call = NoCall
    /\ \/ \E ok \in [{FullRepairSteps[i] : i \in 1..Len(FullRepairSteps)} -> BOOLEAN] :
            call' = [fn |-> "full_repair", arg |-> ok, out |-> full_repair(ok)]
       \/ \E ok \in [{QuickRepairSteps[i] : i \in 1..Len(QuickRepairSteps)} -> BOOLEAN] :
            call' = [fn |-> "quick_repair", arg |-> ok, out |-> quick_repair(ok)]
    /\ UNCHANGED <<monVars, schedVars, diagVars, docVars>>

OptimizeCall ==
    /\ call = NoCall
    /\ \E ret \in [AllCommands -> RetCodes], out \in {"12", ""} :
         \/ call' = [fn |-> "quick_optimize", arg |-> [ret |-> ret, out |-> out],
                     out |-> Optimize(QuickActions, ret, out)]
         \/ call' = [fn |-> "full_optimize", arg |-> [ret |-> ret, out |-> out],
                     out |-> Optimize(FullActions, ret, out)]
    /\ UNCHANGED <<monVars, schedVars, diagVars, docVars>>

(***************************************************************************)
(* The probes of the four programs, as functions of what the underlying    *)
(* call does                                                               *)
(***************************************************************************)
\* what subprocess.run, socket.gethostbyname and urllib.request.urlopen can
\* do: return ("ok"; for a command "nonzero_exit" as well), time out, raise
\* the resolver's or the connection's own error, raise anything else
CommandOutcomes == {"ok", "nonzero_exit", "timeout", "other_exception"}
ResolverOutcomes == {"ok", "gaierror", "other_exception"}
UrlopenOutcomes == {"ok", "URLError", "timeout", "other_exception"}

\* run_command: except subprocess.TimeoutExpired / except Exception give -1
run_command(lib) ==
    IF lib = "ok" THEN 0 ELSE IF lib = "nonzero_exit" THEN 1 ELSE -1

\* the probes built on run_command (measure_ping_time, test_ping and the
\* cache and connection counters): a failure result unless ret == 0
CommandProbe(lib) == IF run_command(lib) = 0 THEN "value" ELSE "failure"

\* measure_dns_resolve_time, measure_dns_time, measure_http_response_time,
\* measure_http_time: try ... except: return -1
GuardedProbe(lib) == IF lib = "ok" THEN "value" ELSE "failure"

\* test_http_connectivity: except urllib.error.URLError, except Exception
test_http_connectivity(lib) == IF lib = "ok" THEN "value" ELSE "failure"

\* test_dns_resolution: except socket.gaierror only
test_dns_resolution(lib) ==
    IF lib = "ok" THEN "value" ELSE IF lib = "gaierror" THEN "failure" ELSE "raises"

\* check_dns_resolution, for one of its test domains: except socket.gaierror
\* only
check_dns_resolution(lib) ==
    IF lib = "ok" THEN "value" ELSE IF lib = "gaierror" THEN "failure" ELSE "raises"

ResolverProbes ==
    {"measure_dns_resolve_time", "measure_dns_time", "test_dns_resolution",
     "check_dns_resolution"}
UrlopenProbes == {"measure_http_response_time", "measure_http_time", "test_http_connectivity"}
CommandProbes ==
    {"measure_ping_time", "test_ping", "get_tcp_connection_count", "get_dns_cache_count",
     "get_arp_cache_count", "get_memory_usage"}

\* what probe gives when its underlying call does lib
Probe(probe, lib) ==
    IF probe = "test_dns_resolution" THEN test_dns_resolution(lib)
    ELSE IF probe = "check_dns_resolution" THEN check_dns_resolution(lib)
    ELSE IF probe = "test_http_connectivity" THEN test_http_connectivity(lib)
    ELSE IF probe \in CommandProbes THEN CommandProbe(lib)
    ELSE GuardedProbe(lib)

ProbeCall ==
    /\ call = NoCall
    /\ \/ \E probe \in ResolverProbes, lib \in ResolverOutcomes :
            call' = [fn |-> "probe", arg |-> [probe |-> probe, lib |-> lib],
                     out |-> Probe(probe, lib)]
       \/ \E probe \in UrlopenProbes, lib \in UrlopenOutcomes :
            call' = [fn |-> "probe", arg |-> [probe |-> probe, lib |-> lib],
                     out |-> Probe(probe, lib)]
       \/ \E probe \in CommandProbes, lib \in CommandOutcomes :
            call' = [fn |-> "probe", arg |-> [probe |-> probe, lib |-> lib],
                     out |-> Probe(probe, lib)]
    /\ UNCHANGED <<monVars, schedVars, diagVars, docVars>>

\* what ping printed: whether a TTL= field is in it, and its latency token
\* (none, one that float() rejects such as time<1ms, or 20 ms)
PingOutputs == [ttl : BOOLEAN, latency : {"none", "unparsable", "20"}]

\* smart_diagnose.test_ping on run_command's return code and output
test_ping(ret, stdout) ==
    IF ret = 0 /\ stdout.ttl
    THEN IF stdout.latency = "20" THEN [ok |-> TRUE, time |-> 20]
         ELSE [ok |-> TRUE, time |-> 0]
    ELSE [ok |-> FALSE, time |-> -1]

\* check_dns_cache: count = stdout.count(...), whatever ret is; run_command
\* gives the empty output with ret = -1
DnsCacheRecordCount(r) == IF r.ret = -1 THEN 0 ELSE r.n

\* test_ping, smart_optimize's get_netbios_cache_count and check_dns_cache
\* applied to the result of their command
ParseCall ==
    /\ call = NoCall
    /\ \/ \E ret \in {0, 1, -1}, stdout \in PingOutputs :
            call' = [fn |-> "test_ping", arg |-> [ret |-> ret, stdout |-> stdout],
                     out |-> test_ping(ret, stdout)]
       \/ \E r \in ToolResults :
            call' = [fn |-> "get_netbios_cache_count", arg |-> r,
                     out |-> [count |-> get_netbios_cache_count(r)]]
       \/ \E r \in ToolResults :
            call' = [fn |-> "check_dns_cache", arg |-> r,
                     out |-> [count |-> DnsCacheRecordCount(r),
                              detected |-> DnsCacheRecordCount(r) > 500]]
    /\ UNCHANGED <<monVars, schedVars, diagVars, docVars>>

(***************************************************************************)
(* network_doctor.py: NetworkDiagnostics and main                          *)
(***************************************************************************)
\* what the ten checks read: the proxy values of the registry, the markers in
\* the output of netsh winhttp show proxy, the Winsock catalog, the number of
\* DNS servers ipconfig /all lists, how many of the 3 test domains fail to
\* resolve, the hosts file, the number of adapters with an address, how many
\* of the 3 ping targets answer and of the 3 URLs give 200, and the return
\* code of netsh advfirewall
HealthyMachine ==
    [proxy |-> "none", winhttp |-> {"en_direct"}, winsock |-> "ok", dns_servers |-> 1,
     dns_failed |-> 0, hosts |-> "ok", adapters |-> 1, ping_ok |-> 3, http_ok |-> 3,
     firewall_ret |-> 0]

\* the machines on which at most one reading is off
DoctorMachines ==
    {[HealthyMachine EXCEPT !.proxy = v] : v \in {"none", "proxy", "pac", "unreadable"}}
    \cup {[HealthyMachine EXCEPT !.winhttp = v] : v \in WinhttpOutputs}
    \cup {[HealthyMachine EXCEPT !.winsock = v] : v \in {"suspicious", "failed"}}
    \cup {[HealthyMachine EXCEPT !.dns_servers = 0]}
    \cup {[HealthyMachine EXCEPT !.dns_failed = v] : v \in 1..3}
    \cup {[HealthyMachine EXCEPT !.hosts = v] : v \in {"suspicious", "long", "unreadable"}}
    \cup {[HealthyMachine EXCEPT !.adapters = 0]}
    \cup {[HealthyMachine EXCEPT !.ping_ok = v] : v \in 0..2}
    \cup {[HealthyMachine EXCEPT !.http_ok = v] : v \in 0..2}
    \cup {[HealthyMachine EXCEPT !.firewall_ret = 1]}

\* what a check gives: its DiagnosticResult and what it adds to issues_found
Checked(name, status, fix_available, issue) ==
    [result |-> [name |-> name, status |-> status, fix_available |-> fix_available],
     issue |-> issue]

ND_check_proxy_settings(m) ==
    IF m.proxy = "unreadable" THEN Checked("proxy_settings", "ERROR", FALSE, 0)
    ELSE IF m.proxy = "proxy" THEN Checked("proxy_settings", "WARNING", TRUE, 1)
    ELSE IF m.proxy = "pac" THEN Checked("proxy_settings", "INFO", TRUE, 0)
    ELSE Checked("proxy_settings", "OK", FALSE, 0)

\* on the markers found in the tool's output
ND_check_winhttp_proxy(stdout) ==
    IF "zh_direct" \in stdout \/ "en_direct" \in stdout
    THEN Checked("winhttp_proxy", "OK", FALSE, 0)
    ELSE IF "zh_proxy" \in stdout \/ "en_proxy" \in stdout
    THEN Checked("winhttp_proxy", "WARNING", TRUE, 1)
    ELSE Checked("winhttp_proxy", "INFO", FALSE, 0)

ND_check_winsock(m) ==
    IF m.winsock # "failed"
    THEN IF m.winsock = "suspicious" THEN Checked("winsock", "WARNING", TRUE, 1)
         ELSE Checked("winsock", "OK", FALSE, 0)
    ELSE Checked("winsock", "ERROR", TRUE, 0)

ND_check_dns_settings(m) ==
    IF m.dns_servers = 0 THEN Checked("dns_settings", "ERROR", TRUE, 1)
    ELSE Checked("dns_settings", "OK", FALSE, 0)

ND_check_dns_resolution(m) ==
    IF m.dns_failed = 3 THEN Checked("dns_resolution", "ERROR", TRUE, 1)
    ELSE IF m.dns_failed > 0 THEN Checked("dns_resolution", "WARNING", TRUE, 0)
    ELSE Checked("dns_resolution", "OK", FALSE, 0)

ND_check_hosts_file(m) ==
    IF m.hosts = "unreadable" THEN Checked("hosts_file", "ERROR", FALSE, 0)
    ELSE IF m.hosts = "suspicious" THEN Checked("hosts_file", "WARNING", TRUE, 1)
    ELSE IF m.hosts = "long" THEN Checked("hosts_file", "WARNING", FALSE, 0)
    ELSE Checked("hosts_file", "OK", FALSE, 0)

ND_check_network_adapters(m) ==
    IF m.adapters = 0 THEN Checked("network_adapters", "ERROR", TRUE, 1)
    ELSE Checked("network_adapters", "OK", FALSE, 0)

ND_check_connectivity(m) ==
    IF m.ping_ok = 0 THEN Checked("connectivity", "ERROR", FALSE, 1)
    ELSE IF m.ping_ok < 3 THEN Checked("connectivity", "WARNING", FALSE, 0)
    ELSE Checked("connectivity", "OK", FALSE, 0)

ND_check_http_connectivity(m) ==
    IF m.http_ok = 0 THEN Checked("http_connectivity", "ERROR", TRUE, 1)
    ELSE IF m.http_ok < 3 THEN Checked("http_connectivity", "WARNING", TRUE, 1)
    ELSE Checked("http_connectivity", "OK", FALSE, 0)

ND_check_firewall_status(m) ==
    IF m.firewall_ret = 0 THEN Checked("firewall_status", "INFO", FALSE, 0)
    ELSE Checked("firewall_status", "WARNING", FALSE, 0)

\* the list `diagnostics` of run_all_diagnostics, applied to the machine
Diagnostics(m) ==
    <<ND_check_proxy_settings(m), ND_check_winhttp_proxy(m.winhttp), ND_check_winsock(m),
      ND_check_dns_settings(m), ND_check_dns_resolution(m), ND_check_hosts_file(m),
      ND_check_network_adapters(m), ND_check_connectivity(m),
      ND_check_http_connectivity(m), ND_check_firewall_status(m)>>

PassResults(m) == [i \in 1..Len(Diagnostics(m)) |-> Diagnostics(m)[i].result]

RECURSIVE IssuesUpTo(_, _)
IssuesUpTo(checks, n) ==
    IF n = 0 THEN 0 ELSE IssuesUpTo(checks, n - 1) + checks[n].issue

PassIssues(m) == IssuesUpTo(Diagnostics(m), Len(Diagnostics(m)))

\* each check's result is appended to self.results, the checks add to
\* self.issues_found; neither is reset
run_all_diagnostics(m) ==
    /\ results' = results \o PassResults(m)
    /\ issues_found' = issues_found + PassIssues(m)
    /\ passes' = passes + 1

\* a repair leaves the machine as it is or brings it to the healthy state
Repaired(m) == {m, HealthyMachine}

\* main, choice '1'
DoctorDiagnose ==
    /\ npc = "menu"
    /\ passes < MaxDoctorPasses
    /\ run_all_diagnostics(machine)
    /\ UNCHANGED <<npc, machine, offered, call, monVars, schedVars, diagVars>>

\* main, choice '4': the pass, then the repair is offered if issues_found > 0
\* and full_repair runs on y
DoctorDiagnoseRepair ==
    /\ npc = "menu"
    /\ passes < MaxDoctorPasses
    /\ run_all_diagnostics(machine)
    /\ IF issues_found' > 0
       THEN /\ offered' = "yes"
            /\ \E answer \in {"y", "n"} :
                 IF answer = "y" THEN machine' \in Repaired(machine)
                 ELSE machine' = machine
       ELSE /\ offered' = "no"
            /\ machine' = machine
    /\ UNCHANGED <<npc, call, monVars, schedVars, diagVars>>

\* main, choices '2', '3', '5', '6': repairs
DoctorRepair ==
    /\ npc = "menu"
    /\ machine' \in Repaired(machine)
    /\ UNCHANGED <<npc, results, issues_found, passes, offered, call, monVars, schedVars,
                   diagVars>>

\* main, choice '0'
DoctorExit ==
    /\ npc = "menu"
    /\ npc' = "exited"
    /\ UNCHANGED <<machine, results, issues_found, passes, offered, call, monVars, schedVars,
                   diagVars>>

\* both WinHTTP checks on one output of the tool
WinhttpCall ==
    /\ call = NoCall
    /\ \E stdout \in SUBSET WinhttpMarkers :
         call' = [fn |-> "check_winhttp_proxy", arg |-> stdout,
                  out |-> [detected |-> check_winhttp_proxy(
                                            [CleanSystem EXCEPT !.winhttpOut = stdout]).detected,
                           status |-> ND_check_winhttp_proxy(stdout).result.status]]
    /\ UNCHANGED <<monVars, schedVars, diagVars, docVars>>

(***************************************************************************)
(* Remediations as functions of their sub-steps' return codes              *)
(***************************************************************************)
\* the number of run_command calls of each routine whose return code the
\* routine receives
SubSteps ==
    [reset_adapter |-> 4, smart_clear_arp_cache |-> 2,
     release_idle_connections |-> 2, optimize_tcp_settings |-> 2]

\* the success the routine reports, rets[i] being the return code of its
\* i-th command: NetworkRepair.reset_adapter and smart_optimize's
\* clear_arp_cache end in `return True`, release_idle_connections builds its
\* result with success=True, optimize_tcp_settings counts the zeros
SubStepSuccess(routine, rets) ==
    IF routine = "reset_adapter" THEN TRUE
    ELSE IF routine = "smart_clear_arp_cache" THEN TRUE
    ELSE IF routine = "release_idle_connections"
    THEN Remediate(routine, [c \in AllCommands |->
                                IF c = "netstat -an | find /c TCP" THEN rets[1] ELSE 0]).success
    ELSE Remediate(routine, [c \in AllCommands |->
                                IF c = "netsh int tcp set global autotuninglevel=normal"
                                THEN rets[1]
                                ELSE IF c = "netsh int tcp set global rss=enabled"
                                THEN rets[2] ELSE 0]).success

SubStepCall ==
    /\ call = NoCall
    /\ \E routine \in DOMAIN SubSteps :
         \E rets \in [1..SubSteps[routine] -> RetCodes] :
            call' = [fn |-> "substeps", arg |-> [routine |-> routine, rets |-> rets],
                     out |-> [success |-> SubStepSuccess(routine, rets)]]
    /\ UNCHANGED <<monVars, schedVars, diagVars, docVars>>

(***************************************************************************)
(* smart_optimize.py comprehensive_test                                     *)
(***************************************************************************)
\* the optimizations in the order they are tried
Optimizations ==
    <<"clear_dns_cache", "clear_arp_cache", "clear_netbios_cache", "refresh_netbios">>

\* http_improve = (baseline - perf) / baseline * 100 when both are > 0, else
\* the initial 0; kept as the numerator over the denominator baseline (or 1)
HttpImprove(baseline, perf) ==
    IF baseline > 0 /\ perf > 0 THEN (baseline - perf) * 100 ELSE 0

ImproveDen(baseline) == IF baseline > 0 THEN baseline ELSE 1

\* the verdict of the ranking: > 5 effective, > 0 slight, else none
RankVerdict(num, den) ==
    IF num > NoiseThreshold * den THEN "effective"
    ELSE IF num > 0 THEN "slight"
    ELSE "none"

\* the results list after the first n optimizations: a failed optimization
\* is skipped, the others are measured (the DNS figures are only printed)
RECURSIVE TestResultsUpTo(_, _, _)
TestResultsUpTo(baseline, steps, n) ==
    IF n = 0 THEN <<>>
    ELSE IF ~steps[n].success THEN TestResultsUpTo(baseline, steps, n - 1)
    ELSE Append(TestResultsUpTo(baseline, steps, n - 1),
                [name |-> Optimizations[n], http_time |-> steps[n].http_time,
                 http_improve |-> HttpImprove(baseline, steps[n].http_time)])

\* sorted(results, key=http_improve, reverse=True): stable, so equal keys keep
\* their order
SortedByImprove(test_results) ==
    LET Rank(i) ==
            1 + Cardinality({j \in 1..Len(test_results) :
                    \/ test_results[j].http_improve > test_results[i].http_improve
                    \/ /\ test_results[j].http_improve = test_results[i].http_improve
                       /\ j < i})
    IN [k \in 1..Len(test_results) |->
            test_results[CHOOSE i \in 1..Len(test_results) : Rank(i) = k]]

\* the ranking that is printed and the conclusion: the recommended list, or
\* "performance is good, nothing to optimize" when no result is effective
comprehensive_test(baseline, steps) ==
    LET test_results == TestResultsUpTo(baseline, steps, Len(Optimizations))
        den == ImproveDen(baseline)
        sorted_results == SortedByImprove(test_results)
    IN [ranking |-> [k \in 1..Len(test_results) |->
                        [name |-> sorted_results[k].name,
                         http_time |-> sorted_results[k].http_time,
                         http_improve |-> sorted_results[k].http_improve,
                         verdict |-> RankVerdict(sorted_results[k].http_improve, den)]],
        conclusion |-> IF \E k \in 1..Len(test_results) :
                              test_results[k].http_improve > NoiseThreshold * den
                       THEN "recommend" ELSE "performance_good"]

\* averages run_performance_test can return for the HTTP probe
TestHttpTimes == {-1, 300, 500}

\* the outcome of each optimization: smart_optimize's clear_arp_cache always
\* reports success
TestSteps ==
    {steps \in [1..Len(Optimizations) -> [success : BOOLEAN, http_time : TestHttpTimes]] :
        steps[2].success}

ComprehensiveTestCall ==
    /\ call = NoCall
    /\ \E baseline \in TestHttpTimes, steps \in TestSteps :
         call' = [fn |-> "comprehensive_test",
                  arg |-> [baseline |-> baseline, steps |-> steps],
                  out |-> comprehensive_test(baseline, steps)]
    /\ UNCHANGED <<monVars, schedVars, diagVars, docVars>>

(***************************************************************************)
(* The other before/after comparisons                                      *)
(***************************************************************************)
\* run_performance_comparison.compare: the colour of the change line is the
\* verdict (GREEN improve, RED regress, WHITE no change); nothing is printed
\* when a value is the failure sentinel
compare(before_val, after_val, lower_is_better) ==
    IF before_val < 0 \/ after_val < 0
    THEN [verdict |-> "none", pct_num |-> 0, pct_den |-> 1]
    ELSE LET diff == IF lower_is_better THEN before_val - after_val
                     ELSE after_val - before_val
             num == IF before_val > 0 THEN diff * 100 ELSE 0
             den == IF before_val > 0 THEN before_val ELSE 1
         IN [verdict |-> IF diff > 0 THEN "improve"
                         ELSE IF diff < 0 THEN "regress"
                         ELSE "no_change",
             pct_num |-> num, pct_den |-> den]

\* single_item_test.compare: both probes ok -> the difference in ms against
\* a band of 10 ms; otherwise the change of the ok flag
AbsoluteBandMs == 10

single_item_compare(before_ok, after_ok, before_time, after_time) ==
    IF before_ok /\ after_ok
    THEN LET diff == before_time - after_time
         IN IF diff > AbsoluteBandMs THEN "improve"
            ELSE IF diff < -AbsoluteBandMs THEN "regress"
            ELSE "no_change"
    ELSE IF ~before_ok /\ after_ok THEN "recovered"
    ELSE IF before_ok /\ ~after_ok THEN "broke"
    ELSE "still_failing"

\* one entry of run_network_test's result: a failed probe has time -1
ProbeResults ==
    {[ok |-> FALSE, time |-> -1]}
    \cup {[ok |-> TRUE, time |-> t] : t \in 0..MaxPerfMs \cup {980, 1000}}

\* every call site of compare leaves lower_is_better at its default
CompareCall ==
    /\ call = NoCall
    /\ \E b \in -1..MaxPerfMs, a \in -1..MaxPerfMs :
         call' = [fn |-> "compare", arg |-> <<b, a>>, out |-> compare(b, a, TRUE)]
    /\ UNCHANGED <<monVars, schedVars, diagVars, docVars>>

SingleItemCompareCall ==
    /\ call = NoCall
    /\ \E b \in ProbeResults, a \in ProbeResults :
         call' = [fn |-> "single_item_compare", arg |-> <<b.time, a.time>>,
                  out |-> [verdict |-> single_item_compare(b.ok, a.ok, b.time, a.time)]]
    /\ UNCHANGED <<monVars, schedVars, diagVars, docVars>>

vars == <<call, monVars, schedVars, diagVars, docVars>>

\* network_monitor.main after monitor = NetworkMonitor(): the session of the
\* status checks and the real-time monitor
Init ==
    /\ call = NoCall
    /\ mpc = "menu"
    /\ stats_history = <<>>
    /\ analysis = "none"
    /\ clock = 0
    /\ netHttp \in HttpSessionVals
    /\ netChanges = 0
    /\ spc = "menu"
    /\ fgTodo = <<>>
    /\ is_running = FALSE
    /\ interval = 1800
    /\ threads = <<>>
    /\ optimization_log = <<>>
    /\ toolRet = [c \in Commands |-> 0]
    /\ toolOut = "12"
    /\ now = 0
    /\ dpc = "menu"
    /\ sys = CleanSystem
    /\ detected_problems = <<>>
    /\ idx = 0
    /\ outcome = "none"
    /\ cause = "none"
    /\ diagnosis_log = <<>>
    /\ calls = <<>>
    /\ runs = 0
    /\ last_http = "none"
    /\ confirm = "none"
    /\ npc = "menu"
    /\ machine = HealthyMachine
    /\ results = <<>>
    /\ issues_found = 0
    /\ passes = 0
    /\ offered = "none"

Next ==
    \/ CheckStatus
    \/ StartMonitor
    \/ MonitorRefresh
    \/ MonitorInterrupt
    \/ NetChange

Spec == Init /\ [][Next]_vars

\* no routine applied yet
InitPure ==
    /\ call = NoCall
    /\ mpc = "menu"
    /\ stats_history = <<>>
    /\ analysis = "none"
    /\ clock = 0
    /\ netHttp = -1
    /\ netChanges = 0
    /\ spc = "menu"
    /\ fgTodo = <<>>
    /\ is_running = FALSE
    /\ interval = 1800
    /\ threads = <<>>
    /\ optimization_log = <<>>
    /\ toolRet = [c \in Commands |-> 0]
    /\ toolOut = "12"
    /\ now = 0
    /\ dpc = "menu"
    /\ sys = CleanSystem
    /\ detected_problems = <<>>
    /\ idx = 0
    /\ outcome = "none"
    /\ cause = "none"
    /\ diagnosis_log = <<>>
    /\ calls = <<>>
    /\ runs = 0
    /\ last_http = "none"
    /\ confirm = "none"
    /\ npc = "menu"
    /\ machine = HealthyMachine
    /\ results = <<>>
    /\ issues_found = 0
    /\ passes = 0
    /\ offered = "none"

\* network_monitor.main after scheduled = ScheduledOptimizer(monitor, optimizer):
\* the session of the optimizer and the timer
InitSched ==
    /\ call = NoCall
    /\ mpc = "menu"
    /\ stats_history = <<>>
    /\ analysis = "none"
    /\ clock = 0
    /\ netHttp = -1
    /\ netChanges = 0
    /\ spc = "menu"
    /\ fgTodo = <<>>
    /\ is_running = FALSE
    /\ interval = 1800
    /\ threads = <<>>
    /\ optimization_log = <<>>
    /\ toolRet \in [Commands -> RetCodes]
    /\ toolOut = "12"
    /\ now = 0
    /\ dpc = "menu"
    /\ sys = CleanSystem
    /\ detected_problems = <<>>
    /\ idx = 0
    /\ outcome = "none"
    /\ cause = "none"
    /\ diagnosis_log = <<>>
    /\ calls = <<>>
    /\ runs = 0
    /\ last_http = "none"
    /\ confirm = "none"
    /\ npc = "menu"
    /\ machine = HealthyMachine
    /\ results = <<>>
    /\ issues_found = 0
    /\ passes = 0
    /\ offered = "none"

NextSched ==
    \/ ToggleScheduled
    \/ Exit
    \/ ChooseQuick
    \/ FgRemediate
    \/ TimerStep
    \/ Tick

SpecSched == InitSched /\ [][NextSched]_vars

\* smart_diagnose.main at its menu, on any machine
InitDiag ==
    /\ call = NoCall
    /\ mpc = "menu"
    /\ stats_history = <<>>
    /\ analysis = "none"
    /\ clock = 0
    /\ netHttp = -1
    /\ netChanges = 0
    /\ spc = "menu"
    /\ fgTodo = <<>>
    /\ is_running = FALSE
    /\ interval = 1800
    /\ threads = <<>>
    /\ optimization_log = <<>>
    /\ toolRet = [c \in Commands |-> 0]
    /\ toolOut = "12"
    /\ now = 0
    /\ dpc = "menu"
    /\ sys \in Systems
    /\ detected_problems = <<>>
    /\ idx = 0
    /\ outcome = "none"
    /\ cause = "none"
    /\ diagnosis_log = <<>>
    /\ calls = <<>>
    /\ runs = 0
    /\ last_http = "none"
    /\ confirm = "none"
    /\ npc = "menu"
    /\ machine = HealthyMachine
    /\ results = <<>>
    /\ issues_found = 0
    /\ passes = 0
    /\ offered = "none"

NextDiag ==
    \/ DiagStart
    \/ DiagAnswer
    \/ DiagExit

SpecDiag == InitDiag /\ [][NextDiag]_vars

\* network_monitor.main at its menu, no timer started, on any machine
InitOpt ==
    /\ call = NoCall
    /\ mpc = "menu"
    /\ stats_history = <<>>
    /\ analysis = "none"
    /\ clock = 0
    /\ netHttp = -1
    /\ netChanges = 0
    /\ spc = "menu"
    /\ fgTodo = <<>>
    /\ is_running = FALSE
    /\ interval = 1800
    /\ threads = <<>>
    /\ optimization_log = <<>>
    /\ toolRet \in [AllCommands -> RetCodes]
    /\ toolOut \in {"12", ""}
    /\ now = 0
    /\ dpc = "menu"
    /\ sys = CleanSystem
    /\ detected_problems = <<>>
    /\ idx = 0
    /\ outcome = "none"
    /\ cause = "none"
    /\ diagnosis_log = <<>>
    /\ calls = <<>>
    /\ runs = 0
    /\ last_http = "none"
    /\ confirm = "none"
    /\ npc = "menu"
    /\ machine = HealthyMachine
    /\ results = <<>>
    /\ issues_found = 0
    /\ passes = 0
    /\ offered = "none"

NextOpt ==
    \/ ChooseQuick
    \/ ChooseFull
    \/ FgRemediate
    \/ Exit

SpecOpt == InitOpt /\ [][NextOpt]_vars

\* network_monitor.main with all three objects: status checks (choice '1')
\* between the optimizer's and the timer's steps
SessionCheckStatus ==
    /\ spc = "menu"
    /\ Len(stats_history) < MaxSessionSamples
    /\ CheckStatus

InitSession ==
    /\ call = NoCall
    /\ mpc = "menu"
    /\ stats_history = <<>>
    /\ analysis = "none"
    /\ clock = 0
    /\ netHttp \in HttpSessionVals
    /\ netChanges = 0
    /\ spc = "menu"
    /\ fgTodo = <<>>
    /\ is_running = FALSE
    /\ interval = 1800
    /\ threads = <<>>
    /\ optimization_log = <<>>
    /\ toolRet \in {[c \in Commands |-> 0], [c \in Commands |-> 1]}
    /\ toolOut = "12"
    /\ now = 0
    /\ dpc = "menu"
    /\ sys = CleanSystem
    /\ detected_problems = <<>>
    /\ idx = 0
    /\ outcome = "none"
    /\ cause = "none"
    /\ diagnosis_log = <<>>
    /\ calls = <<>>
    /\ runs = 0
    /\ last_http = "none"
    /\ confirm = "none"
    /\ npc = "menu"
    /\ machine = HealthyMachine
    /\ results = <<>>
    /\ issues_found = 0
    /\ passes = 0
    /\ offered = "none"

NextSession ==
    \/ SessionCheckStatus
    \/ ToggleScheduled
    \/ Exit
    \/ ChooseQuick
    \/ FgRemediate
    \/ TimerStep
    \/ Tick

SpecSession == InitSession /\ [][NextSession]_vars

\* network_doctor.main after diagnostics = NetworkDiagnostics()
InitDoctor ==
    /\ call = NoCall
    /\ mpc = "menu"
    /\ stats_history = <<>>
    /\ analysis = "none"
    /\ clock = 0
    /\ netHttp = -1
    /\ netChanges = 0
    /\ spc = "menu"
    /\ fgTodo = <<>>
    /\ is_running = FALSE
    /\ interval = 1800
    /\ threads = <<>>
    /\ optimization_log = <<>>
    /\ toolRet = [c \in Commands |-> 0]
    /\ toolOut = "12"
    /\ now = 0
    /\ dpc = "menu"
    /\ sys = CleanSystem
    /\ detected_problems = <<>>
    /\ idx = 0
    /\ outcome = "none"
    /\ cause = "none"
    /\ diagnosis_log = <<>>
    /\ calls = <<>>
    /\ runs = 0
    /\ last_http = "none"
    /\ confirm = "none"
    /\ npc = "menu"
    /\ machine \in DoctorMachines
    /\ results = <<>>
    /\ issues_found = 0
    /\ passes = 0
    /\ offered = "none"

NextDoctor ==
    \/ DoctorDiagnose
    \/ DoctorDiagnoseRepair
    \/ DoctorRepair
    \/ DoctorExit

SpecDoctor == InitDoctor /\ [][NextDoctor]_vars

NextPure ==
    \/ CollectStatsCall
    \/ PrintStatsCall
    \/ PrintPerformanceCall
    \/ ShowCacheStatusCall
    \/ AnalyzeCall
    \/ BaselineCall
    \/ FixIeProxyCall
    \/ RemediateCall
    \/ RepairCall
    \/ OptimizeCall
    \/ ProbeCall
    \/ ParseCall
    \/ CompareCall
    \/ WinhttpCall
    \/ ComprehensiveTestCall
    \/ SubStepCall
    \/ SingleItemCompareCall
    \/ ReturnCall

SpecPure == InitPure /\ [][NextPure]_vars

(***************************************************************************)
(* Claims about the classifiers (SpecPure)                                 *)
(***************************************************************************)
IsCall(fn) == call.fn = fn

\* C1 (as stated): for v >= 0 collect_stats gives normal iff v < 1500,
\* degraded iff 1500 <= v < 3000 and slow iff v >= 3000: a value equal to a
\* cutoff falls in the worse bucket.
C1_CutoffInWorseBucket ==
    IsCall("collect_stats") /\ call.arg.http_response_time >= 0 =>
        LET v == call.arg.http_response_time
            st == call.out.status
        IN /\ (st = "normal") <=> (v < 1500)
           /\ (st = "degraded") <=> (1500 <= v /\ v < 3000)
           /\ (st = "slow") <=> (v >= 3000)

\* C1 (amended): for v >= 0 collect_stats gives normal iff v <= 1500, degraded
\* iff 1500 < v <= 3000 and slow iff v > 3000: a value equal to a cutoff
\* stays in the better bucket; a negative value gives error.
C1_CutoffInBetterBucket ==
    IsCall("collect_stats") =>
        LET v == call.arg.http_response_time
            st == call.out.status
        IN /\ (st = "normal") <=> (0 <= v /\ v <= 1500)
           /\ (st = "degraded") <=> (1500 < v /\ v <= 3000)
           /\ (st = "slow") <=> (v > 3000)
           /\ (st = "error") <=> (v < 0)

C1_Witness ==
    /\ IsCall("collect_stats")
    /\ call.arg.http_response_time = 3000
    /\ call.out.status = "degraded"

\* C2: no per-metric classification puts the failure sentinel -1 in the normal
\* (green) bucket: not print_stats for any of its seven metrics, not get_color
\* of print_performance, not show_cache_status.
C2_SentinelNeverNormal ==
    /\ IsCall("print_stats") =>
        /\ call.arg.dns_resolve_time = -1 => call.out.dns_color # "GREEN"
        /\ call.arg.ping_time = -1 => call.out.ping_color # "GREEN"
        /\ call.arg.http_response_time = -1 => call.out.http_color # "GREEN"
        /\ call.arg.tcp_connections = -1 => call.out.tcp_color # "GREEN"
        /\ call.arg.dns_cache_entries = -1 => call.out.dns_cache_color # "GREEN"
        /\ call.arg.arp_cache_entries = -1 => call.out.arp_color # "GREEN"
        /\ call.arg.memory_usage_percent = -1 => call.out.mem_color # "GREEN"
    /\ IsCall("print_performance") =>
        /\ call.arg.dns_time = -1 => call.out.dns_color # "GREEN"
        /\ call.arg.http_time = -1 => call.out.http_color # "GREEN"
        /\ call.arg.ping_time = -1 => call.out.ping_color # "GREEN"
    /\ IsCall("show_cache_status") =>
        \A i \in 1..4 : call.out[i].count = -1 => call.out[i].status # "normal"

\* C6: analyze on valid positive before and after values: identical values give
\* 0% and "no change"; |delta| < 5% gives "no change"; a 50% reduction gives
\* "improvement"; an increase of 5% or more gives "regression".
C6_BeforeAfterVerdict ==
    IsCall("analyze") /\ call.arg[1] > 0 /\ call.arg[2] > 0 =>
        LET b == call.arg[1]
            a == call.arg[2]
            r == call.out
        IN /\ a = b => r.pct_num = 0 /\ r.verdict = "no_change"
           /\ 100 * Abs(b - a) < 5 * b => r.verdict = "no_change"
           /\ 2 * a = b => r.verdict = "improve"
           /\ 100 * (a - b) >= 5 * b => r.verdict = "regress"

C6_Witness ==
    /\ IsCall("analyze")
    /\ call.arg = <<100, 105>>
    /\ call.out.verdict = "regress"

(***************************************************************************)
(* Claims about the history buffer and the trend analysis (Spec)           *)
(***************************************************************************)
\* C3: the history never holds more than 100 samples; a step that appends to a
\* full history leaves exactly 100 samples, drops exactly the oldest one and
\* keeps the others in insertion order, the new sample last.
C3_HistoryFifo ==
    [][/\ Len(stats_history') <= HistoryMaxLen
       /\ stats_history' # stats_history =>
            LET old == stats_history
                new == stats_history'
                dropped == IF Len(old) = HistoryMaxLen THEN 1 ELSE 0
            IN /\ Len(new) = Len(old) + 1 - dropped
               /\ \A i \in 1..(Len(new) - 1) : new[i] = old[i + dropped]
               /\ new[Len(new)].timestamp = clock
               /\ \A i \in 1..(Len(new) - 1) :
                    new[i].timestamp < new[i + 1].timestamp]_vars

C3_Witness ==
    /\ Len(stats_history) = HistoryMaxLen
    /\ stats_history[1].timestamp = 1
    /\ stats_history[HistoryMaxLen].timestamp = HistoryMaxLen

Analyzed == mpc \in {"monitor", "crashed"}

\* C4 (as stated): with fewer than 2 x 10 = 20 samples analyze_performance
\* reports "insufficient data", whatever the values.
C4_InsufficientBelow20 ==
    Analyzed /\ Len(stats_history) < 2 * TrendWindow => analysis = "insufficient"

\* C4 (amended): analyze_performance reports "insufficient data" exactly when
\* the history holds fewer than 2 samples; with 2 to 19 samples it reports
\* stable whatever the values are, never degrading.
C4_InsufficientBelow2 ==
    Analyzed =>
        /\ (analysis = "insufficient") <=> (Len(stats_history) < 2)
        /\ Len(stats_history) >= 2 /\ Len(stats_history) < 2 * TrendWindow
              => analysis = "stable"

C4_Witness ==
    /\ mpc = "monitor"
    /\ Len(stats_history) = 2 * TrendWindow - 1
    /\ stats_history[1].http_response_time = 1000
    /\ stats_history[Len(stats_history)].http_response_time = 2000
    /\ analysis = "stable"

RECURSIVE CountValidHttp(_)
CountValidHttp(w) ==
    IF w = <<>> THEN 0
    ELSE (IF Head(w).http_response_time > 0 THEN 1 ELSE 0) + CountValidHttp(Tail(w))

\* mean of the valid HTTP times of recent > 1.5 x that of older
ValidMeanExceeds(recent, older) ==
    2 * SumValidHttp(recent) * CountValidHttp(older)
        > 3 * SumValidHttp(older) * CountValidHttp(recent)

\* C5: with at least 20 samples the verdict is degrading iff the mean of the
\* valid HTTP times of the 10 most recent samples exceeds 1.5 times the mean of
\* the valid HTTP times of the 10 samples before them, and stable otherwise
\* (windows without any valid sample are left open).
C5_TrendOnValidMeans ==
    Analyzed /\ Len(stats_history) >= 2 * TrendWindow =>
        LET n == Len(stats_history)
            recent == SubSeq(stats_history, n - TrendWindow + 1, n)
            older == SubSeq(stats_history, n - 2 * TrendWindow + 1, n - TrendWindow)
        IN CountValidHttp(recent) > 0 /\ CountValidHttp(older) > 0 =>
             /\ (analysis = "degrading") <=> ValidMeanExceeds(recent, older)
             /\ (analysis = "stable") <=> ~ValidMeanExceeds(recent, older)

(***************************************************************************)
(* Claims about the timer thread (SpecSched)                               *)
(***************************************************************************)
\* C7: once stop() has cleared is_running, every _run loop that was alive
\* then leaves at its next poll of the flag, and so is over within one
\* polling interval (one minute) of the stop, whatever the foreground does
\* meanwhile.
C7_StopObeyedAtNextPoll ==
    [][\A t \in 1..Len(threads) :
         /\ (threads[t].stopped /\ threads[t].pc = "test" /\ threads'[t].pc # "test")
                => threads'[t].pc = "dead"
         /\ (threads'[t].stopped /\ threads'[t].pc # "dead")
                => now' <= threads'[t].stopAt + 1]_vars

\* C8: at most one _run loop is alive at any time.
C8_SingleTimerThread ==
    Cardinality({t \in 1..Len(threads) : Alive(t)}) <= 1

\* the foreground and a timer thread are both inside quick_optimize, whose
\* remediations append to optimization_log
LogShared ==
    spc = "optimize" /\ \E t \in 1..Len(threads) : threads[t].pc = "optimize"

\* a _run loop older than the last start() is alive: start() wrote interval
\* while that loop could read it
IntervalShared ==
    \E t \in 1..Len(threads) : Alive(t) /\ t # Len(threads)

\* C9: besides is_running, the timer thread and the foreground share no
\* variable that one writes while the other reads or writes it: they are
\* never both inside quick_optimize appending to optimization_log, and
\* start() never writes interval while a _run loop is alive to read it.
C9_OnlyFlagShared ==
    /\ ~LogShared
    /\ ~IntervalShared

(***************************************************************************)
(* Claims about smart_diagnose (SpecDiag)                                  *)
(***************************************************************************)
\* C10: a smart_diagnose run whose baseline HTTP probe succeeds ends in that
\* step at the menu with the verdict "network ok": it has called the probe
\* set and nothing else (no check, no fix), and the machine's settings and
\* the diagnosis log are as they were.
C10_BaselineOkStops ==
    [][(dpc = "menu" /\ runs' # runs /\ last_http' = "ok")
          => /\ calls' = <<"run_network_test">>
             /\ sys' = sys
             /\ diagnosis_log' = diagnosis_log
             /\ dpc' = "menu"
             /\ outcome' = "network_ok"]_vars

\* a run stopped at its baseline on a machine where a check would have
\* detected a candidate
C10_Witness ==
    /\ outcome = "network_ok"
    /\ last_http = "ok"
    /\ calls = <<"run_network_test">>
    /\ check_ie_proxy(sys).detected
    /\ check_dns_cache(sys).detected

\* C11: when the HTTP probe re-run after an applied fix succeeds, the run
\* ends in that step: nobody is prompted again, the fix just applied is the
\* last call but one, the cause reported is the candidate prompted for, and
\* what is logged, if anything, is that candidate.
C11_StopsAtFirstResolvingFix ==
    [][(dpc = "prompt" /\ last_http' = "ok")
          => LET problem == detected_problems[idx]
             IN /\ dpc' = "menu"
                /\ outcome' = "resolved"
                /\ cause' = problem.name
                /\ calls' = calls \o <<problem.fix_function, "run_network_test">>
                /\ diagnosis_log' \in {diagnosis_log, Append(diagnosis_log, problem.name)}]_vars

\* the second fix applied resolved the problem while a later candidate was
\* still detected
C11_Witness ==
    /\ outcome = "resolved"
    /\ cause = "pac_script"
    /\ calls = <<"run_network_test">> \o CheckCalls
                   \o <<"fix_ie_proxy", "run_network_test", "fix_pac_script", "run_network_test">>
    /\ diagnosis_log = <<"pac_script">>
    /\ check_dns_cache(sys).detected

FixNames ==
    {"fix_ie_proxy", "fix_pac_script", "fix_winhttp_proxy", "fix_winsock", "fix_dns_cache"}

\* the positions of a sequence of calls that call fix function f
CallsOf(cs, f) == {i \in 1..Len(cs) : cs[i] = f}

\* how many calls of fix functions a sequence of calls holds
FixCount(cs) == Cardinality({i \in 1..Len(cs) : cs[i] \in FixNames})

\* no fix function occurs twice in a sequence of calls
NoFixTwice(cs) == \A f \in FixNames : Cardinality(CallsOf(cs, f)) <= 1

\* C12: in every step in which the probes return: a run whose baseline HTTP
\* probe fails ends at once with the report "no problem found" exactly when
\* no check detects a candidate; a run ends "unresolved" only from the prompt
\* for the last detected candidate and with the HTTP probe still failed, and
\* from that prompt with the probe still failed it always ends (unresolved or
\* aborted by the user); neither report names a cause or writes the log;
\* every prompt moves on to the next candidate, and no fix is called twice.
C12_UnresolvedWhenExhausted ==
    [][/\ (dpc = "menu" /\ runs' # runs /\ last_http' = "failed")
            => /\ (outcome' = "no_problem") = (SelectSeq(Problems(sys), IsDetected) = <<>>)
               /\ outcome' \in {"no_problem", "running"}
               /\ (outcome' = "running")
                     => (dpc' = "prompt" /\ idx' = 1
                         /\ detected_problems' = SelectSeq(Problems(sys), IsDetected))
       /\ (outcome' \in {"no_problem", "unresolved"} /\ outcome' # outcome)
            => (dpc' = "menu" /\ cause' = "none" /\ diagnosis_log' = diagnosis_log
                /\ last_http' = "failed")
       /\ (dpc = "prompt" /\ outcome' = "unresolved")
            => idx = Len(detected_problems)
       /\ (dpc = "prompt" /\ idx = Len(detected_problems) /\ last_http' = "failed")
            => (dpc' = "menu" /\ outcome' \in {"unresolved", "aborted"})
       /\ (dpc = "prompt" /\ dpc' = "prompt")
            => (idx' = idx + 1 /\ idx' <= Len(detected_problems)
                /\ detected_problems' = detected_problems)
       /\ dpc = "prompt"
            => (FixCount(calls') <= FixCount(calls) + 1 /\ NoFixTwice(calls')
                /\ FixCount(calls') <= idx)]_vars

\* a run that applied one fix in vain, failed to apply the last one and
\* ended unresolved
C12_Witness ==
    /\ outcome = "unresolved"
    /\ cause = "none"
    /\ last_http = "failed"
    /\ calls = <<"run_network_test">> \o CheckCalls
                   \o <<"fix_ie_proxy", "run_network_test", "fix_winsock">>

\* C13: a sample whose HTTP time is the failure value -1 has the status
\* error whatever its other six values are; and whenever the baseline HTTP
\* probe of smart_diagnose fails, whatever ping and DNS gave, the run does
\* not stop at the baseline but calls all five checks, in their order.
C13_HttpFailureIsErrorAndEvaluates ==
    /\ (IsCall("collect_stats") /\ call.arg.http_response_time = -1)
           => call.out.status = "error"
    /\ (IsCall("smart_diagnose") /\ ~call.arg.test.raises /\ ~call.arg.test.http.ok)
           => /\ call.out.verdict \in {"running", "no_problem"}
              /\ call.out.calls = <<"run_network_test", "check_ie_proxy", "check_pac_script",
                                    "check_winhttp_proxy", "check_winsock", "check_dns_cache">>

\* the scenario: ping 20 ms, DNS 15 ms, HTTP failed, on a machine with a
\* system proxy
C13_Witness ==
    /\ IsCall("smart_diagnose")
    /\ call.arg.test = [ping |-> [ok |-> TRUE, time |-> 20], dns |-> [ok |-> TRUE, time |-> 15],
                        http |-> [ok |-> FALSE, time |-> -1], raises |-> FALSE]
    /\ call.out.verdict = "running"
    /\ Len(call.out.calls) = 6
    /\ call.out.detected[1].name = "ie_proxy"

\* C14: on a registry with ProxyEnable = 1 and ProxyServer = 127.0.0.1:8080
\* that can be read, check_ie_proxy gives the system proxy candidate as
\* detected; and whatever the settings were, after a fix_ie_proxy that
\* reported success ProxyEnable is 0 and check_ie_proxy gives not detected.
C14_FixClearsSystemProxy ==
    IsCall("fix_ie_proxy")
        => /\ (call.arg.ProxyEnable = {1} /\ call.arg.ProxyServer = "127.0.0.1:8080"
               /\ call.arg.regAccess # "none")
                  => (call.out.before.name = "ie_proxy" /\ call.out.before.detected)
           /\ call.out.success
                  => (call.out.st.ProxyEnable = {0} /\ ~call.out.after.detected)

\* the scenario: the proxy was detected, the fix succeeded
C14_Witness ==
    /\ IsCall("fix_ie_proxy")
    /\ call.arg.ProxyEnable = {1}
    /\ call.arg.ProxyServer = "127.0.0.1:8080"
    /\ call.out.before.detected
    /\ call.out.success
    /\ ~call.out.after.detected

(***************************************************************************)
(* Claims about the remediations of NetworkOptimizer                       *)
(***************************************************************************)
\* C15: clear_arp_cache runs netsh first and once; it runs arp -d * exactly
\* when netsh returned non-zero, and then once; netsh failed and arp -d *
\* returned zero gives success with the message of the fallback path; the
\* result is a failure exactly when both returned non-zero; netsh returned
\* zero gives success with the plain message and arp -d * is not run.
C15_ArpFallbackPolicy ==
    IsCall("clear_arp_cache")
        => LET primary == call.arg["netsh interface ip delete arpcache"]
               secondary == call.arg["arp -d *"]
               result == call.out.result
               ran == call.out.ran
           IN /\ ran = IF primary = 0
                       THEN <<"netsh interface ip delete arpcache">>
                       ELSE <<"netsh interface ip delete arpcache", "arp -d *">>
              /\ (primary # 0 /\ secondary = 0)
                     => (result.success /\ result.message = "cleared (fallback)")
              /\ (~result.success) = (primary # 0 /\ secondary # 0)
              /\ primary = 0 => (result.success /\ result.message = "cleared")

\* the scenario: the first command failed, the second succeeded
C15_Witness ==
    /\ IsCall("clear_arp_cache")
    /\ call.arg["netsh interface ip delete arpcache"] # 0
    /\ call.arg["arp -d *"] = 0
    /\ call.out.result.success
    /\ call.out.result.message = "cleared (fallback)"
    /\ Len(call.out.ran) = 2

\* no command occurs twice in a sequence of commands
NoRepeat(cmds) == \A i, j \in 1..Len(cmds) : cmds[i] = cmds[j] => i = j

\* C16: every step of a quick_optimize or full_optimize runs the next
\* remediation, which passes no command twice to run_command and appends
\* exactly one record, its own, to optimization_log; the sequence is over
\* exactly when its last remediation has done so, so that quick_optimize has
\* grown the log by 3 records and full_optimize by 6; no step removes or
\* changes a record the log already holds.
C16_OneRecordPerRemediation ==
    [][/\ Len(optimization_log') >= Len(optimization_log)
       /\ SubSeq(optimization_log', 1, Len(optimization_log)) = optimization_log
       /\ (spc = "menu" /\ spc' = "optimize")
            => (fgTodo' \in {QuickActions, FullActions} /\ UNCHANGED optimization_log)
       /\ spc = "optimize"
            => /\ NoRepeat(CommandsRun(Head(fgTodo), toolRet))
               /\ Len(optimization_log') = Len(optimization_log) + 1
               /\ optimization_log'[Len(optimization_log')].action = Head(fgTodo)
               /\ fgTodo' = Tail(fgTodo)
               /\ spc' = IF fgTodo' = <<>> THEN "menu" ELSE "optimize"]_vars

\* C17: whatever each step returns, full_repair calls all its 7 steps and
\* quick_repair all its 3, and whatever each command returns or prints,
\* full_optimize calls all its 6 remediations and quick_optimize all its 3,
\* each in its fixed order.
C17_EveryStepAttempted ==
    /\ IsCall("full_repair")
          => call.out.attempted = <<"disable_ie_proxy", "reset_winhttp_proxy", "flush_dns",
                                    "reset_dns", "reset_winsock", "reset_tcp_ip",
                                    "release_renew_ip">>
    /\ IsCall("quick_repair")
          => call.out.attempted = <<"disable_ie_proxy", "reset_winhttp_proxy", "flush_dns">>
    /\ IsCall("full_optimize")
          => call.out.attempted = <<"flush_dns_cache", "clear_arp_cache", "clear_netbios_cache",
                                    "reset_netbios_sessions", "optimize_tcp_settings",
                                    "release_idle_connections">>
    /\ IsCall("quick_optimize")
          => call.out.attempted = <<"flush_dns_cache", "clear_arp_cache", "clear_netbios_cache">>

\* a full_repair whose first step failed and whose last step was called
C17_Witness ==
    /\ IsCall("full_repair")
    /\ ~call.arg["disable_ie_proxy"]
    /\ ~call.arg["reset_dns"]
    /\ Len(call.out.attempted) = 7
    /\ call.out.success_count = 5

(***************************************************************************)
(* Claims about the menu loops and the probes                              *)
(***************************************************************************)
\* C18: no main loop is left by an exception: whatever the probes and the
\* remediations of a menu choice give, network_monitor.main (with its
\* monitor and its optimizer) and smart_diagnose.main are at their menu
\* again, or still inside the choice, or were left by choice 0.
C18_MenuLoopSurvives ==
    /\ mpc # "crashed"
    /\ spc # "crashed"
    /\ dpc # "crashed"

\* C19: whatever its underlying call does, no probe raises: it gives a value
\* when the call returned and its failure result in every other case.
C19_ProbesFailClosed ==
    IsCall("probe")
        => /\ call.out # "raises"
           /\ (call.arg.lib # "ok") => call.out = "failure"

\* C20: test_ping gives a negative latency, not 0, unless it parsed a
\* latency from ping's output; get_netbios_cache_count gives a negative
\* count, not 0, when nbtstat returned non-zero; check_dns_cache does not
\* count 0 records when ipconfig /displaydns returned non-zero.
C20_NoZeroForUnknown ==
    /\ (IsCall("test_ping")
          /\ (call.arg.ret # 0 \/ ~call.arg.stdout.ttl \/ call.arg.stdout.latency # "20"))
         => call.out.time < 0
    /\ (IsCall("get_netbios_cache_count") /\ call.arg.ret # 0) => call.out.count < 0
    /\ (IsCall("check_dns_cache") /\ call.arg.ret # 0) => call.out.count # 0

\* C21: in each of the three before/after comparisons (analyze, compare of
\* run_performance_comparison, compare of single_item_test) a change of two
\* valid measurements that lies within the percentage noise band, less than
\* NoiseThreshold percent of the before value, is reported as no change
C21_NoiseBandIsNoChange ==
    (IsCall("analyze") \/ IsCall("compare") \/ IsCall("single_item_compare")) /\
    call.arg[1] > 0 /\ call.arg[2] >= 0 /\
    Abs(call.arg[1] - call.arg[2]) * 100 < NoiseThreshold * call.arg[1]
        => call.out.verdict = "no_change"

\* C22: a remediation whose external sub-steps all returned non-zero does not
\* report success (reset_adapter, smart_optimize's clear_arp_cache,
\* release_idle_connections, optimize_tcp_settings)
C22_AllFailedIsFailure ==
    IsCall("substeps") /\ (\A i \in DOMAIN call.arg.rets : call.arg.rets[i] # 0)
        => ~call.out.success

\* C23: the status of a sample is a function of its measured values alone:
\* any two samples of a session whose seven measured values are equal have
\* the same status, whatever the history held, whatever the optimization log
\* holds and whether or not a timer thread runs; and every status check
\* appends a sample whose status is the threshold table's verdict on the
\* value measured in that step.
MeasuredValues(s) ==
    <<s.dns_resolve_time, s.ping_time, s.http_response_time, s.tcp_connections,
      s.dns_cache_entries, s.arp_cache_entries, s.memory_usage_percent>>

C24_FailedMeasurementIsUnknown ==
    IsCall("comprehensive_test")
        => LET baseline == call.arg.baseline
               ranking == call.out.ranking
           IN /\ (baseline < 0 \/ \E k \in 1..Len(ranking) : ranking[k].http_time < 0)
                    => call.out.conclusion # "performance_good"
              /\ \A k \in 1..Len(ranking) :
                    (baseline < 0 \/ ranking[k].http_time < 0)
                        => ranking[k].http_improve # 0

\* C25: smart_diagnose calls a fix function only in the step that answers the
\* prompt of a detected candidate with y, and then that candidate's own fix
\* and no other; on every other answer the settings, the calls made, the
\* probe result and the log are unchanged; on q the run ends at once, aborted;
\* no step outside a prompt changes a setting or calls a fix.
C25_FixOnlyOnOwnYes ==
    [][/\ dpc = "prompt"
            => LET problem == detected_problems[idx]
               IN /\ problem.detected
                  /\ confirm' \in Answers
                  /\ confirm' # "y"
                        => (sys' = sys /\ calls' = calls /\ last_http' = last_http
                            /\ diagnosis_log' = diagnosis_log)
                  /\ confirm' = "q" => (dpc' = "menu" /\ outcome' = "aborted")
                  /\ confirm' = "y"
                        => /\ Len(calls') > Len(calls)
                           /\ SubSeq(calls', 1, Len(calls)) = calls
                           /\ calls'[Len(calls) + 1] = problem.fix_function
                           /\ FixCount(calls') = FixCount(calls) + 1
       /\ dpc # "prompt" => (sys' = sys /\ (calls' = calls \/ FixCount(calls') = 0))
      ]_vars

\* the scenario: the first candidate was skipped, the second was fixed after
\* y and the probe still failed, so the third is prompted for
C25_Witness ==
    /\ dpc = "prompt"
    /\ idx = 3
    /\ confirm = "y"
    /\ FixCount(calls) = 1
    /\ calls[Len(calls) - 1] = detected_problems[2].fix_function
    /\ sys # CleanSystem

\* C26: a timer thread for which stop() has returned does not begin another
\* quick_optimize and runs no remediation of one.
C26_NoOptimizeAfterStop ==
    [][\A t \in 1..Len(threads) :
         threads[t].stopped
            => /\ ~(threads[t].pc # "optimize" /\ threads'[t].pc = "optimize")
               /\ threads'[t].todo = threads[t].todo]_vars

\* C27: analyze_performance returns one of its verdicts for every history;
\* it does not raise.
C27_AnalyzeReturnsVerdict ==
    analysis \in {"none", "insufficient", "stable", "degrading"}

(***************************************************************************)
(* Claims about network_doctor (SpecDoctor) and the WinHTTP checks          *)
(***************************************************************************)
\* C28: after every call of run_all_diagnostics the result list holds exactly
\* the 10 results of that pass in the order of the checks, and issues_found
\* is the number of issues that pass counted.
C28_PassStartsFresh ==
    [][passes' # passes
          => /\ Len(results') = 10
             /\ results' = PassResults(machine)
             /\ issues_found' = PassIssues(machine)]_vars

\* C29: issues_found is the number of recorded results whose status is
\* WARNING or ERROR, and option 4 offers the repair whenever a result of its
\* pass is WARNING or ERROR or has a fix available.
C29_IssuesMatchResults ==
    /\ issues_found
          = Cardinality({i \in 1..Len(results) : results[i].status \in {"WARNING", "ERROR"}})
    /\ offered # "none"
          => ((\E i \in 1..Len(results) :
                    /\ i > Len(results) - 10
                    /\ (results[i].status \in {"WARNING", "ERROR"} \/ results[i].fix_available))
                => offered = "yes")

\* C30: on every combination of the four markers smart_diagnose's check
\* detects a proxy iff network_doctor's check returns WARNING, and it detects
\* none on an output that indicates direct access.
C30_WinhttpChecksAgree ==
    IsCall("check_winhttp_proxy")
        => /\ call.out.detected <=> (call.out.status = "WARNING")
           /\ IndicatesDirect(call.arg) => ~call.out.detected

====
